---- MODULE Spec2Model ----
(***************************************************************************)
(* Model of the changelog editor of expotools: the Markdown token model,   *)
(* its renderer and lexer adapter (Markdown.ts), the Changelog class       *)
(* (Changelogs.ts) and the merge-changelogs command.                       *)
(*                                                                         *)
(* A JavaScript string is modelled as a sequence of atoms.  An atom is a   *)
(* single character that matters to markdown ("#", "-", " ", "\n", ...)    *)
(* or an opaque word (a run of characters without whitespace or markup).   *)
(* String concatenation is \o, so text glued together by the renderer is   *)
(* glued together in the model as well.                                    *)
(***************************************************************************)
EXTENDS Integers, Sequences, FiniteSets, TLC

\* JavaScript's null and undefined, where a string is expected: one-atom
\* sequences that are no text.  NullTokens is the null of Changelog.tokens and
\* NoFile the content of a file that does not exist or cannot be read.
NULL == <<"<null>">>

NoArg == <<"<undefined>">>

NullTokens == <<[type |-> "<null>"]>>

NoFile == <<"<no file>">>

EOL == <<"\n">>

Str(w) == <<w>>

\* ------------------------------------------------------------------------
\* String helpers (JavaScript String.prototype methods used by the code)
\* ------------------------------------------------------------------------

IsWhitespace(a) == a \in {" ", "\n"}

RECURSIVE trimRight(_)
trimRight(s) ==
  IF s = <<>> THEN <<>>
  ELSE IF IsWhitespace(s[Len(s)]) THEN trimRight(SubSeq(s, 1, Len(s) - 1))
  ELSE s

RECURSIVE trimLeft(_)
trimLeft(s) ==
  IF s = <<>> THEN <<>>
  ELSE IF IsWhitespace(s[1]) THEN trimLeft(Tail(s))
  ELSE s

trim(s) == trimLeft(trimRight(s))

RECURSIVE repeat(_, _)
repeat(s, n) == IF n <= 0 THEN <<>> ELSE s \o repeat(s, n - 1)

\* lodash unescape: the five HTML entities become their characters.
UnescapeAtom(a) ==
  CASE a = "&amp;" -> "&"
    [] a = "&lt;" -> "<"
    [] a = "&gt;" -> ">"
    [] a = "&quot;" -> "\""
    [] a = "&#39;" -> "'"
    [] OTHER -> a

unescape(s) == [i \in 1..Len(s) |-> UnescapeAtom(s[i])]

\* s.split("\n"): the pieces between line breaks (always at least one piece).
\* BreakAt(s, from) is the position of the first line break at or after
\* from, and Len(s) + 1 when there is none.
BreakAt(s, from) ==
  LET later == {i \in from..Len(s) : s[i] = "\n"}
  IN IF later = {} THEN Len(s) + 1
     ELSE CHOOSE i \in later : \A j \in later : i <= j

RECURSIVE SplitFrom(_, _)
SplitFrom(s, from) ==
  LET b == BreakAt(s, from)
  IN IF b > Len(s) THEN <<SubSeq(s, from, Len(s))>>
     ELSE <<SubSeq(s, from, b - 1)>> \o SplitFrom(s, b + 1)

split(s) == SplitFrom(s, 1)

\* lines.join(sep)
RECURSIVE join(_, _)
join(lines, sep) ==
  IF lines = <<>> THEN <<>>
  ELSE IF Len(lines) = 1 THEN lines[1]
  ELSE lines[1] \o sep \o join(Tail(lines), sep)

\* `${n}`
NumStr(n) == <<"0", "1", "2", "3", "4", "5", "6", "7", "8", "9">>[n + 1]

\* ------------------------------------------------------------------------
\* Token model
\* ------------------------------------------------------------------------

HEADING == "heading"
LIST == "list"
LIST_ITEM == "listItem"
PARAGRAPH == "paragraph"
TEXT == "text"
BLOCKQUOTE == "blockquote"
SPACE == "space"
CODE == "code"

HeadingToken(depth, text) == [type |-> HEADING, depth |-> depth, text |-> text]

\* `ordered` is undefined on a created list; undefined is falsy, as FALSE is.
ListToken(depth, items, ordered) ==
  [type |-> LIST, depth |-> depth, items |-> items, ordered |-> ordered]

ListItemToken(depth, text, tokens) ==
  [type |-> LIST_ITEM, depth |-> depth, text |-> text, tokens |-> tokens]

ParagraphToken(text) == [type |-> PARAGRAPH, text |-> text]

SpaceToken == [type |-> SPACE]

CodeToken(text, lang) == [type |-> CODE, text |-> text, lang |-> lang]

BlockquoteToken(text) == [type |-> BLOCKQUOTE, text |-> text]

createTextToken(text) == [type |-> TEXT, text |-> text]

createListToken(depth) == ListToken(depth, <<>>, FALSE)

createListItemToken(text, depth) ==
  ListItemToken(depth, text, <<createTextToken(text)>>)

\* ------------------------------------------------------------------------
\* Renderer (MarkdownRenderer)
\* ------------------------------------------------------------------------

\* indent(depth, indentStr = '  ')
indent(depth, indentStr) == IF depth > 0 THEN repeat(indentStr, depth) ELSE <<>>

IndentUnit == <<" ", " ">>

heading(token) ==
  indent(token.depth, <<"#">>) \o <<" ">> \o token.text \o repeat(EOL, 2)

paragraph(token) == token.text \o EOL

text(token) == token.text

space(token) == EOL

\* The atom standing for the three backquotes of a code fence.
Fence == "<fence>"

code(token, ind) ==
  LET lines == <<(<<Fence>> \o token.lang)>> \o split(token.text) \o <<(<<Fence>>)>>
      indentStr == indent(ind, IndentUnit)
  IN indentStr \o join(lines, EOL \o indentStr)

\* What renderToken gives for a kind it has no case for: it throws, and no
\* caller uses the value.
Thrown == <<"<throw>">>

\* Faulty variant of Renderable: only the top-level tokens are looked at.
RenderableAtTop(tokens) ==
  \A i \in 1..Len(tokens) :
    tokens[i].type \in {HEADING, LIST, LIST_ITEM, PARAGRAPH, TEXT, SPACE, CODE}

\* The kinds renderToken has a case for; any other kind makes it throw.
SupportedTypes == {HEADING, LIST, LIST_ITEM, PARAGRAPH, TEXT, SPACE, CODE}

RECURSIVE renderToken(_, _, _, _)
RECURSIVE listItem(_, _, _, _)
RECURSIVE listItemChildren(_, _, _, _)
RECURSIVE list(_, _, _, _)
RECURSIVE listItems(_, _, _, _)

\* ctx = {indent: ind, orderedList: ordered, itemIndex: idx}
renderToken(token, ind, ordered, idx) ==
  CASE token.type = HEADING -> heading(token)
    [] token.type = LIST -> list(token, ind, ordered, idx)
    [] token.type = LIST_ITEM -> listItem(token, ind, ordered, idx)
    [] token.type = PARAGRAPH -> paragraph(token)
    [] token.type = TEXT -> text(token)
    [] token.type = SPACE -> space(token)
    [] token.type = CODE -> code(token, ind)
    [] OTHER -> Thrown

listItemChildren(children, ind, ordered, idx) ==
  IF children = <<>> THEN <<>>
  ELSE trimRight(renderToken(children[1], ind + 1, ordered, idx)) \o EOL
       \o listItemChildren(Tail(children), ind, ordered, idx)

listItem(token, ind, ordered, idx) ==
  LET bullet == IF ordered THEN <<NumStr(idx), ".">> ELSE <<"-">>
      output == indent(ind, IndentUnit) \o bullet \o <<" ">>
                \o listItemChildren(token.tokens, ind, ordered, idx)
  IN trimRight(output) \o EOL

\* the loop of list(): item i is rendered with itemIndex i
listItems(items, i, ind, ordered) ==
  IF i > Len(items) THEN <<>>
  ELSE listItem(items[i], ind, ordered, i) \o listItems(items, i + 1, ind, ordered)

list(token, ind, ordered, idx) ==
  listItems(token.items, 1, ind, token.ordered) \o EOL

RECURSIVE rendererRender(_)
rendererRender(tokens) ==
  IF tokens = <<>> THEN <<>>
  ELSE renderToken(tokens[1], 0, FALSE, 1) \o rendererRender(Tail(tokens))

\* Whether renderToken reaches only kinds it has a case for.
RECURSIVE Renderable(_)
Renderable(tokens) ==
  \A i \in 1..Len(tokens) :
    /\ tokens[i].type \in SupportedTypes
    /\ tokens[i].type = LIST =>
         \A k \in 1..Len(tokens[i].items) : Renderable(tokens[i].items[k].tokens)
    /\ tokens[i].type = LIST_ITEM => Renderable(tokens[i].tokens)

\* Faulty variant of render: the output is not trimmed.
renderUntrimmed(tokens) == unescape(rendererRender(tokens) \o EOL)

render(tokens) == unescape(trim(rendererRender(tokens)) \o EOL)

\* ------------------------------------------------------------------------
\* The markdown tokenizer behind lexify (marked.lexer), on the constructs a
\* changelog uses: ATX headings, bullet and numbered lists with nested
\* content, paragraphs, blank-line runs and fenced code.  It works on the
\* lines of the text.  What it leaves undefined (the depth of lists and list
\* items) is Undefined until recursivelyFixTokens sets it.
\* ------------------------------------------------------------------------

Undefined == -1

\* The lines of a text: split at line breaks, the last line break being a
\* terminator and not the start of one more line.
Lines(s) ==
  LET pieces == split(s)
  IN IF s = <<>> THEN <<>>
     ELSE IF pieces[Len(pieces)] = <<>> THEN SubSeq(pieces, 1, Len(pieces) - 1)
     ELSE pieces

IsBlankLine(l) == \A i \in 1..Len(l) : l[i] = " "

RECURSIVE LeadSpaces(_)
LeadSpaces(l) ==
  IF l # <<>> /\ l[1] = " " THEN 1 + LeadSpaces(Tail(l)) ELSE 0

RECURSIVE LeadHashes(_)
LeadHashes(l) ==
  IF l # <<>> /\ l[1] = "#" THEN 1 + LeadHashes(Tail(l)) ELSE 0

DropFirst(l, n) == SubSeq(l, n + 1, Len(l))

\* ^ {0,3}(#{1,6}) +text
IsHeadingLine(l) ==
  LET n == LeadSpaces(l)
      r == DropFirst(l, n)
      k == LeadHashes(r)
  IN n <= 3 /\ k >= 1 /\ k <= 6 /\ Len(r) > k /\ r[k + 1] = " "

HeadingOfLine(l) ==
  LET r == DropFirst(l, LeadSpaces(l))
      k == LeadHashes(r)
  IN HeadingToken(k, trim(DropFirst(r, k)))

Digits == {"0", "1", "2", "3", "4", "5", "6", "7", "8", "9"}

\* The width of the bullet ("-" or "1.") that stands after n spaces, 0 if none.
BulletWidth(l, n) ==
  IF Len(l) >= n + 2 /\ l[n + 1] \in {"-", "*", "+"} /\ l[n + 2] = " " THEN 1
  ELSE IF Len(l) >= n + 3 /\ l[n + 1] \in Digits /\ l[n + 2] = "." /\ l[n + 3] = " "
       THEN 2
  ELSE 0

IsBulletLine(l) == LeadSpaces(l) <= 3 /\ BulletWidth(l, LeadSpaces(l)) > 0

\* A bullet after exactly `base` spaces: the start of an item of that list.
IsItemStart(l, base) == LeadSpaces(l) = base /\ BulletWidth(l, base) > 0

IsFenceLine(l) ==
  LET n == LeadSpaces(l)
  IN n <= 3 /\ Len(l) > n /\ l[n + 1] = Fence

IsClosingFence(l) == IsFenceLine(l) /\ trim(l) = <<Fence>>

RECURSIVE BlankRun(_, _)
BlankRun(lines, p) ==
  IF p <= Len(lines) /\ IsBlankLine(lines[p]) THEN 1 + BlankRun(lines, p + 1) ELSE 0

\* The last line of the list whose last line so far is q: a list goes on until
\* blank lines are followed by a line that neither is indented nor starts an
\* item of the list, or until the text ends.
RECURSIVE ListEnd(_, _, _)
ListEnd(lines, q, base) ==
  IF q >= Len(lines) THEN q
  ELSE IF ~IsBlankLine(lines[q + 1]) THEN ListEnd(lines, q + 1, base)
  ELSE LET nxt == q + 1 + BlankRun(lines, q + 1)
       IN IF nxt > Len(lines) THEN q
          ELSE IF lines[nxt][1] = " " \/ IsItemStart(lines[nxt], base)
               THEN ListEnd(lines, nxt, base)
          ELSE q

\* The last line of the item that starts at line p of a list ending at line e.
RECURSIVE ItemEnd(_, _, _, _)
ItemEnd(lines, p, e, base) ==
  IF p >= e THEN e
  ELSE IF IsItemStart(lines[p + 1], base) THEN p
  ELSE ItemEnd(lines, p + 1, e, base)

RECURSIVE StripBlankTail(_)
StripBlankTail(lines) ==
  IF lines # <<>> /\ IsBlankLine(lines[Len(lines)])
  THEN StripBlankTail(SubSeq(lines, 1, Len(lines) - 1))
  ELSE lines

\* Up to n leading spaces removed.
Outdent(l, n) ==
  LET k == LeadSpaces(l) IN DropFirst(l, IF k < n THEN k ELSE n)

\* The content lines of an item: bullet removed, continuation lines outdented
\* by the width of the removed prefix.
ItemLines(lines, p, q, base) ==
  LET afterBullet == DropFirst(lines[p], base + BulletWidth(lines[p], base))
      first == DropFirst(afterBullet, LeadSpaces(afterBullet))
      width == Len(lines[p]) - Len(first)
  IN StripBlankTail(
       <<first>> \o [i \in 1..(q - p) |-> Outdent(lines[p + i], width)])

\* ^ {0,3}> : a line of a block quote.
IsQuoteLine(l) ==
  LET n == LeadSpaces(l)
  IN n <= 3 /\ Len(l) > n /\ l[n + 1] = ">"

\* The last line of the block quote that starts at line p: the quote lines
\* that follow one another.
RECURSIVE QuoteEnd(_, _)
QuoteEnd(lines, p) ==
  IF p < Len(lines) /\ IsQuoteLine(lines[p + 1]) THEN QuoteEnd(lines, p + 1) ELSE p

\* A quote line without its marker and the space after it.
Unquote(l) ==
  LET r == DropFirst(l, LeadSpaces(l) + 1)
  IN IF r # <<>> /\ r[1] = " " THEN Tail(r) ELSE r

\* The closing fence of the code block opened at line p, 0 if there is none.
RECURSIVE ClosingFence(_, _)
ClosingFence(lines, q) ==
  IF q > Len(lines) THEN 0
  ELSE IF IsClosingFence(lines[q]) THEN q
  ELSE ClosingFence(lines, q + 1)

\* The last line of the paragraph that starts at line p: a paragraph goes on
\* over lines that are not blank and start no heading, fence or list.
RECURSIVE ParagraphEnd(_, _)
ParagraphEnd(lines, p) ==
  IF p >= Len(lines) THEN p
  ELSE LET l == lines[p + 1]
       IN IF \/ IsBlankLine(l) \/ IsHeadingLine(l) \/ IsFenceLine(l)
             \/ IsBulletLine(l) \/ IsQuoteLine(l)
          THEN p
          ELSE ParagraphEnd(lines, p + 1)

RECURSIVE blockTokens(_, _, _, _)
RECURSIVE listItemsOf(_, _, _, _)

\* The items of the list lines p..e.
listItemsOf(lines, p, e, base) ==
  IF p > e THEN <<>>
  ELSE LET q == ItemEnd(lines, p, e, base)
           content == ItemLines(lines, p, q, base)
       IN <<[ListItemToken(Undefined, join(content, EOL),
                           blockTokens(content, 1, FALSE, "start"))
              EXCEPT !.type = "list_item"]>>
          \o listItemsOf(lines, q + 1, e, base)

\* The tokens of lines p.. ; top is FALSE inside a list item, where a line of
\* text is a text token and not a paragraph.  prev is the kind of the block
\* just before, which decides how many line breaks a run of blank lines makes:
\* a paragraph or text leaves its own line break to the run, and a run of more
\* than one line break is a space token.
blockTokens(lines, p, top, prev) ==
  IF p > Len(lines) THEN <<>>
  ELSE
    LET l == lines[p] IN
    IF IsBlankLine(l) THEN
      LET k == BlankRun(lines, p)
          breaks == k + (IF prev \in {PARAGRAPH, TEXT} THEN 1 ELSE 0)
      IN (IF breaks > 1 THEN <<SpaceToken>> ELSE <<>>)
         \o blockTokens(lines, p + k, top, SPACE)
    ELSE IF IsFenceLine(l) THEN
      LET c == ClosingFence(lines, p + 1)
          last == IF c = 0 THEN Len(lines) ELSE c
          body == SubSeq(lines, p + 1, IF c = 0 THEN Len(lines) ELSE c - 1)
          lang == trim(DropFirst(l, LeadSpaces(l) + 1))
      IN <<CodeToken(join(body, EOL), lang)>>
         \o blockTokens(lines, last + 1 + BlankRun(lines, last + 1), top, CODE)
    ELSE IF IsHeadingLine(l) THEN
      <<HeadingOfLine(l)>>
      \o blockTokens(lines, p + 1 + BlankRun(lines, p + 1), top, HEADING)
    ELSE IF IsQuoteLine(l) THEN
      LET e == QuoteEnd(lines, p)
      IN <<BlockquoteToken(join([i \in 1..(e - p + 1) |-> Unquote(lines[p + i - 1])], EOL))>>
         \o blockTokens(lines, e + 1, top, BLOCKQUOTE)
    ELSE IF IsBulletLine(l) THEN
      LET base == LeadSpaces(l)
          e == ListEnd(lines, p, base)
      IN <<ListToken(Undefined, listItemsOf(lines, p, e, base),
                     BulletWidth(l, base) = 2)>>
         \o blockTokens(lines, e + 1 + BlankRun(lines, e + 1), top, LIST)
    ELSE IF top THEN
      LET e == ParagraphEnd(lines, p)
      IN <<ParagraphToken(join(SubSeq(lines, p, e), EOL))>>
         \o blockTokens(lines, e + 1, top, PARAGRAPH)
    ELSE
      <<createTextToken(l)>> \o blockTokens(lines, p + 1, top, TEXT)

markedLexer(src) == blockTokens(Lines(src), 1, TRUE, "start")

\* ------------------------------------------------------------------------
\* Lexer adapter
\* ------------------------------------------------------------------------

\* delete token.raw: the record without its raw field, if it has one.
DeleteRaw(token) ==
  IF "raw" \in DOMAIN token
  THEN [f \in (DOMAIN token) \ {"raw"} |-> token[f]]
  ELSE token

\* Faulty variant of recursivelyFixTokens: the children of an item are fixed
\* with the depth of the item's list.
RECURSIVE recursivelyFixTokensFlat(_, _)
recursivelyFixTokensFlat(tokens, listDepth) ==
  [i \in 1..Len(tokens) |->
    IF tokens[i].type = LIST
    THEN [DeleteRaw(tokens[i]) EXCEPT
           !.depth = listDepth,
           !.items = [k \in 1..Len(tokens[i].items) |->
                       [DeleteRaw(tokens[i].items[k]) EXCEPT
                         !.type = LIST_ITEM,
                         !.depth = listDepth,
                         !.tokens = recursivelyFixTokensFlat(
                                      tokens[i].items[k].tokens, listDepth)]]]
    ELSE DeleteRaw(tokens[i])]

RECURSIVE recursivelyFixTokens(_, _)
recursivelyFixTokens(tokens, listDepth) ==
  [i \in 1..Len(tokens) |->
    IF tokens[i].type = LIST
    THEN [DeleteRaw(tokens[i]) EXCEPT
           !.depth = listDepth,
           !.items = [k \in 1..Len(tokens[i].items) |->
                       [DeleteRaw(tokens[i].items[k]) EXCEPT
                         !.type = LIST_ITEM,
                         !.depth = listDepth,
                         !.tokens = recursivelyFixTokens(
                                      tokens[i].items[k].tokens, listDepth + 1)]]]
    ELSE DeleteRaw(tokens[i])]

lexify(src) == recursivelyFixTokens(markedLexer(src), 0)

\* ------------------------------------------------------------------------
\* Changelogs.ts: constants and helpers
\* ------------------------------------------------------------------------

BREAKING_CHANGES == Str("Breaking changes")
NEW_FEATURES == Str("New features")
BUG_FIXES == Str("Bug fixes")

UNPUBLISHED_VERSION_NAME == Str("master")

VERSION_EMPTY_PARAGRAPH_TEXT ==
  Str("*This version does not introduce any user-facing changes.*")

VERSION_HEADING_DEPTH == 2

CHANGE_TYPE_HEADING_DEPTH == 3

GROUP_LIST_ITEM_DEPTH == 0

UNPUBLISHED_VERSION_NAMES == {Str("master"), Str("unpublished")}

\* !x for a string-or-undefined x: undefined, null and "" are falsy.
Falsy(x) == x = NoArg \/ x = NULL \/ x = <<>>

isVersionToken(token, version) ==
  /\ token.type = HEADING
  /\ token.depth = VERSION_HEADING_DEPTH
  /\ (Falsy(version) \/ token.text = version)

isChangeTypeToken(token, changeType) ==
  /\ token.type = HEADING
  /\ token.depth = CHANGE_TYPE_HEADING_DEPTH
  /\ (Falsy(changeType) \/ token.text = changeType)

\* "**`" + groupName + "`**"; the two atoms stand for the markup around the name.
getGroupLabel(groupName) == <<"**<bq>">> \o groupName \o <<"<bq>**">>

isGroupToken(token, groupName) ==
  IF token.type = LIST_ITEM /\ token.depth = GROUP_LIST_ITEM_DEPTH
  THEN /\ token.tokens[1].type = TEXT
       /\ token.tokens[1].text = getGroupLabel(groupName)
  ELSE FALSE

\* Array.prototype.findIndex, 1-based, on the sequence of the callback's
\* results for the elements; 0 when the callback holds for no element.
FindIndex(holds) ==
  IF \E i \in 1..Len(holds) : holds[i]
  THEN CHOOSE i \in 1..Len(holds) : holds[i] /\ \A k \in 1..(i - 1) : ~holds[k]
  ELSE 0

\* Faulty variant of findGroup: the group's list item is never found.
findGroupNever(token, groupName) == 0

\* The index in token.items of the group's list item, 0 if there is none.
findGroup(token, groupName) ==
  FindIndex([n \in 1..Len(token.items) |-> isGroupToken(token.items[n], groupName)])

\* [#n](https://github.com/expo/expo/pull/n)
PullRequestLink(n) == <<"[#", NumStr(n), "](https://github.com/expo/expo/pull/", NumStr(n), ")">>

\* [@a](https://github.com/a)
AuthorLink(a) == <<"[@">> \o a \o <<"](https://github.com/">> \o a \o <<")">>

getChangeEntryLabel(entry) ==
  LET pullRequests == entry.pullRequests
      authors == entry.authors
  IN IF Len(pullRequests) + Len(authors) > 0
     THEN LET pullRequestsStr ==
                join([i \in 1..Len(pullRequests) |-> PullRequestLink(pullRequests[i])],
                     <<",", " ">>)
              authorsStr ==
                join([i \in 1..Len(authors) |-> AuthorLink(authors[i])], <<",", " ">>)
              pullRequestInformations ==
                trim(pullRequestsStr \o <<" ", "by", " ">> \o authorsStr)
          IN entry.message \o <<" ", "(">> \o pullRequestInformations \o <<")">>
     ELSE entry.message

\* Array.prototype.splice(start, 0, ...items): a negative start counts from
\* the end of the array (and stops at its beginning).
Splice(seq, start, items) ==
  LET at == IF start < 0
            THEN (IF Len(seq) + start < 0 THEN 0 ELSE Len(seq) + start)
            ELSE (IF start > Len(seq) THEN Len(seq) ELSE start)
  IN SubSeq(seq, 1, at) \o items \o SubSeq(seq, at + 1, Len(seq))

\* Array.prototype.splice(start, 1), start within the array
RemoveAt(seq, i) == SubSeq(seq, 1, i - 1) \o SubSeq(seq, i + 1, Len(seq))

\* ------------------------------------------------------------------------
\* Changelog: the operations as functions of the token array
\* ------------------------------------------------------------------------

\* Faulty variant of getTokens: a failed read is not caught.
getTokensNoCatch(cached, content) ==
  IF cached # NullTokens THEN cached ELSE lexify(content)

\* Faulty variant of getTokens: the file is read on every call.
getTokensAlwaysRead(cached, content) ==
  IF content = NoFile THEN <<>> ELSE lexify(content)

\* getTokensAsync: the cached tokens, or the lexed file, or [] when the file
\* cannot be read.
getTokens(cached, content) ==
  IF cached # NullTokens THEN cached
  ELSE IF content = NoFile THEN <<>>
  ELSE lexify(content)

getVersions(toks) ==
  LET idx == {i \in 1..Len(toks) :
                toks[i].type = HEADING /\ toks[i].depth = VERSION_HEADING_DEPTH}
      RECURSIVE Collect(_)
      Collect(i) ==
        IF i > Len(toks) THEN <<>>
        ELSE (IF i \in idx THEN <<toks[i].text>> ELSE <<>>) \o Collect(i + 1)
  IN Collect(1)

\* semver.valid on MAJOR.MINOR.PATCH
semverValid(version) ==
  /\ Len(version) = 5
  /\ version[1] \in Digits /\ version[3] \in Digits /\ version[5] \in Digits
  /\ version[2] = "." /\ version[4] = "."

getLastPublishedVersion(toks) ==
  LET versions == getVersions(toks)
      i == FindIndex([n \in 1..Len(versions) |-> semverValid(versions[n])])
  IN IF i = 0 THEN NULL ELSE versions[i]

\* A JavaScript object used as a map: a function on its own keys.  A lookup
\* of a key the object does not own goes on to Object.prototype, which has a
\* function under each of InheritedKeys (and under some more names).
EmptyMap == [k \in {} |-> <<>>]

Has(m, k) == k \in DOMAIN m

Put(m, k, v) == [x \in (DOMAIN m) \cup {k} |-> IF x = k THEN v ELSE m[x]]

InheritedKeys == {Str("constructor"), Str("toString")}

\* !obj[k] is false: the object owns k (here always with an object or an
\* array as value) or inherits it.
Truthy(m, k) == Has(m, k) \/ k \in InheritedKeys

\* What getChangesAsync ends with when it calls push on a function.
TypeErrorThrown == [totalCount |-> 0, versions |-> EmptyMap, thrown |-> "TypeError"]

RECURSIVE ItemTexts(_)
ItemTexts(items) ==
  IF items = <<>> THEN <<>> ELSE <<items[1].text>> \o ItemTexts(Tail(items))

\* Faulty variant of LoopBreaks: the loop never breaks.
LoopNeverBreaks(token, fromVersion, toVersion) == FALSE

\* The condition of the break in getChangesAsync, at a version heading.
LoopBreaks(token, fromVersion, toVersion) ==
  token.text # toVersion /\ (Falsy(fromVersion) \/ token.text = fromVersion)

\* The loop of getChangesAsync from token i on; a break ends the recursion.
\* When versions does not own currentVersion, versions[currentVersion] is the
\* function Object.prototype has under that name: what is stored in it and
\* pushed to it does not show in versions.
RECURSIVE getChangesLoop(_, _, _, _, _, _, _)
getChangesLoop(toks, i, fromVersion, toVersion, currentVersion, currentSection, changes) ==
  IF i > Len(toks) THEN changes
  ELSE
    LET token == toks[i] IN
    IF token.type = HEADING THEN
      IF token.depth = VERSION_HEADING_DEPTH THEN
        IF LoopBreaks(token, fromVersion, toVersion)
        THEN changes
        ELSE
          LET cv == IF token.text \in UNPUBLISHED_VERSION_NAMES
                    THEN Str("unpublished") ELSE token.text
              versions == IF Truthy(changes.versions, cv) THEN changes.versions
                          ELSE Put(changes.versions, cv, EmptyMap)
          IN getChangesLoop(toks, i + 1, fromVersion, toVersion, cv, NULL,
                            [changes EXCEPT !.versions = versions])
      ELSE IF ~Falsy(currentVersion) /\ token.depth = CHANGE_TYPE_HEADING_DEPTH THEN
        IF ~Has(changes.versions, currentVersion)
        THEN getChangesLoop(toks, i + 1, fromVersion, toVersion, currentVersion,
                            token.text, changes)
        ELSE
        LET sections == changes.versions[currentVersion]
            versions == IF Truthy(sections, token.text) THEN changes.versions
                        ELSE Put(changes.versions, currentVersion,
                                 Put(sections, token.text, <<>>))
        IN getChangesLoop(toks, i + 1, fromVersion, toVersion, currentVersion,
                          token.text, [changes EXCEPT !.versions = versions])
      ELSE getChangesLoop(toks, i + 1, fromVersion, toVersion, currentVersion,
                          currentSection, changes)
    ELSE IF ~Falsy(currentVersion) /\ ~Falsy(currentSection) /\ token.type = LIST THEN
      IF Len(token.items) = 0
      THEN getChangesLoop(toks, i + 1, fromVersion, toVersion, currentVersion,
                          currentSection, changes)
      ELSE IF ~Has(changes.versions, currentVersion)
      THEN IF currentSection \in InheritedKeys THEN TypeErrorThrown
           ELSE getChangesLoop(toks, i + 1, fromVersion, toVersion, currentVersion,
                               currentSection,
                               [changes EXCEPT !.totalCount = @ + Len(token.items)])
      ELSE IF ~Has(changes.versions[currentVersion], currentSection)
      THEN TypeErrorThrown
      ELSE
      LET sections == changes.versions[currentVersion]
          entries == sections[currentSection] \o ItemTexts(token.items)
      IN getChangesLoop(toks, i + 1, fromVersion, toVersion, currentVersion,
                        currentSection,
                        [totalCount |-> changes.totalCount + Len(token.items),
                         versions |-> Put(changes.versions, currentVersion,
                                          Put(sections, currentSection, entries))])
    ELSE getChangesLoop(toks, i + 1, fromVersion, toVersion, currentVersion,
                        currentSection, changes)

NoChanges == [totalCount |-> 0, versions |-> EmptyMap]

\* toVersion defaults to UNPUBLISHED_VERSION_NAME when it is not passed.
getChanges(toks, fromVersion, toVersion) ==
  getChangesLoop(toks, 1, fromVersion,
                 IF toVersion = NoArg THEN UNPUBLISHED_VERSION_NAME ELSE toVersion,
                 NULL, NULL, NoChanges)

\* Faulty variant of ListScanStops: the scan stops at no list.
ListScanStopsAtHeading(token, changeTypeToken) ==
  token.type = HEADING /\ token.depth < changeTypeToken.depth

\* The index at which the scan for the section's list stops: the first list
\* after the change-type heading at i, or the first heading shallower than the
\* change-type heading; Len(toks) + 1 when the scan runs off the end.
ListScanStops(token, changeTypeToken) ==
  \/ token.type = LIST
  \/ token.type = HEADING /\ token.depth < changeTypeToken.depth

RECURSIVE ListScan(_, _, _)
ListScan(toks, j, changeTypeToken) ==
  IF j > Len(toks) THEN j
  ELSE IF ListScanStops(toks[j], changeTypeToken) THEN j
  ELSE ListScan(toks, j + 1, changeTypeToken)

\* Faulty variant of SectionScan: the scan does not stop at the next version heading.
RECURSIVE SectionScanPastVersions(_, _, _)
SectionScanPastVersions(toks, i, changeType) ==
  IF i > Len(toks) THEN 0
  ELSE IF isChangeTypeToken(toks[i], changeType) THEN i
  ELSE SectionScanPastVersions(toks, i + 1, changeType)

\* The index of the first token after sectionIndex that ends the scan for the
\* change type: a version heading or the heading of the wanted type; 0 if none.
RECURSIVE SectionScan(_, _, _)
SectionScan(toks, i, changeType) ==
  IF i > Len(toks) THEN 0
  ELSE IF isVersionToken(toks[i], NoArg) \/ isChangeTypeToken(toks[i], changeType) THEN i
  ELSE SectionScan(toks, i + 1, changeType)

\* Faulty variant of EntryItems: only the first entry becomes an item.
EntryItemsFirstOnly(entries) ==
  <<createListItemToken(getChangeEntryLabel(entries[1]), 0)>>

EntryItems(entries) ==
  [k \in 1..Len(entries) |-> createListItemToken(getChangeEntryLabel(entries[k]), 0)]

\* The list `outer` after the entries went into the sub-list of the group's
\* item, both created when missing.
InsertIntoGroup(outer, group, entries) ==
  LET found == findGroup(outer, group)
      items1 == IF found = 0
                THEN Append(outer.items, createListItemToken(getGroupLabel(group), 0))
                ELSE outer.items
      g == IF found = 0 THEN Len(items1) ELSE found
      groupListItem == items1[g]
      foundList == FindIndex([n \in 1..Len(groupListItem.tokens) |-> groupListItem.tokens[n].type = LIST])
      tokens1 == IF foundList = 0
                 THEN Append(groupListItem.tokens, createListToken(GROUP_LIST_ITEM_DEPTH))
                 ELSE groupListItem.tokens
      gl == IF foundList = 0 THEN Len(tokens1) ELSE foundList
      groupList == [tokens1[gl] EXCEPT !.depth = 1, !.items = @ \o EntryItems(entries)]
  IN [outer EXCEPT !.items = [items1 EXCEPT ![g].tokens = [tokens1 EXCEPT ![gl] = groupList]]]

InsertIntoList(outer, entries) ==
  [outer EXCEPT !.depth = 0, !.items = @ \o EntryItems(entries)]

\* Faulty variant of SectionIndex: the version argument is not compared.
SectionIndexAnyVersion(toks, version) ==
  FindIndex([n \in 1..Len(toks) |-> isVersionToken(toks[n], NoArg)])

\* tokens.findIndex((token) => isVersionToken(token, version))
SectionIndex(toks, version) == FindIndex([n \in 1..Len(toks) |-> isVersionToken(toks[n], version)])

\* insertEntriesAsync on the loaded tokens, entries not empty.  result is "ok"
\* or the error thrown; target is the index of the top-level list that took
\* the entries (or holds the group that took them), 0 if nothing was inserted.
insertEntries(toks, version, changeType, group, entries) ==
  LET sectionIndex == SectionIndex(toks, version)
      i == SectionScan(toks, sectionIndex + 1, changeType)
  IN IF sectionIndex = 0
     THEN [result |-> "VersionNotFound", tokens |-> toks, target |-> 0]
     ELSE IF i = 0
     THEN [result |-> "ChangeTypeSectionNotFound", tokens |-> toks, target |-> 0]
     ELSE IF isVersionToken(toks[i], NoArg)
     THEN [result |-> "ok", tokens |-> toks, target |-> 0]
     ELSE
       LET j == ListScan(toks, i + 1, toks[i])
           found == j <= Len(toks) /\ toks[j].type = LIST
           toks1 == IF found THEN toks ELSE Splice(toks, j - 1, <<createListToken(1)>>)
           newList == IF Falsy(group) THEN InsertIntoList(toks1[j], entries)
                      ELSE InsertIntoGroup(toks1[j], group, entries)
       IN [result |-> "ok", tokens |-> [toks1 EXCEPT ![j] = newList], target |-> j]

\* A number in the place of a string argument: 0 is falsy as the empty string
\* is, and a number other than 0 is strictly equal to no string.
NumberAsString(n) == IF n = 0 THEN <<>> ELSE <<"<number>">>

\* tokens.findIndex(isVersionToken) in cutOffAsync: findIndex calls
\* isVersionToken(token, index, array), so the index arrives as version.
FirstVersionHeadingIndex(toks) ==
  FindIndex([n \in 1..Len(toks) |-> isVersionToken(toks[n], NumberAsString(n - 1))])

newSectionTokens ==
  << HeadingToken(VERSION_HEADING_DEPTH, UNPUBLISHED_VERSION_NAME),
     HeadingToken(CHANGE_TYPE_HEADING_DEPTH, BREAKING_CHANGES),
     HeadingToken(CHANGE_TYPE_HEADING_DEPTH, NEW_FEATURES),
     HeadingToken(CHANGE_TYPE_HEADING_DEPTH, BUG_FIXES) >>

\* The clean-up loop of cutOffAsync from index i on: the tokens and the index
\* it ends with.
RECURSIVE CleanUp(_, _)
CleanUp(toks, i) ==
  IF i <= Len(toks) /\ ~isVersionToken(toks[i], NoArg)
  THEN IF /\ isChangeTypeToken(toks[i], NoArg)
          /\ \/ i + 1 > Len(toks)
             \/ isChangeTypeToken(toks[i + 1], NoArg)
             \/ isVersionToken(toks[i + 1], NoArg)
       THEN CleanUp(RemoveAt(toks, i), i)
       ELSE CleanUp(toks, i + 1)
  ELSE [tokens |-> toks, i |-> i]

\* The cached token array after cutOffAsync renamed the first version heading:
\* the copy shares its token objects with the cache.
RenameFirstVersion(toks, version) ==
  LET first == FirstVersionHeadingIndex(toks)
  IN IF first = 0 THEN toks ELSE [toks EXCEPT ![first].text = version]

\* The token array cutOffAsync renders.
cutOff(toks, version) ==
  LET first == FirstVersionHeadingIndex(toks)
      cleaned ==
        IF first = 0 THEN toks
        ELSE LET c == CleanUp(RenameFirstVersion(toks, version), first + 1)
             IN IF c.i = first + 1
                THEN Splice(c.tokens, c.i - 1,
                            <<ParagraphToken(VERSION_EMPTY_PARAGRAPH_TEXT)>>)
                ELSE c.tokens
  IN Splice(cleaned, first - 1, newSectionTokens)

\* ------------------------------------------------------------------------
\* State: one Changelog instance and its file
\* ------------------------------------------------------------------------

VARIABLES
  file,    \* the content of the file at filePath, NoFile if there is none
  tokens,  \* Changelog.tokens: NullTokens or the cached token array
  call,    \* the last call on the instance: arguments, outcome, state before
  calls,   \* the number of calls made so far
  merge    \* the merge-changelogs command: its locals and its packages' instances

vars == <<file, tokens, call, calls, merge>>

\* Bounds of the model
MaxDocLen == 4

MaxTreeLen == 3

MaxEntries == 2

MaxCalls == 3

\* A call that has not been made; each action fills in what it is about.
\*   pre        the token array the call worked on (after loading)
\*   preTokens  Changelog.tokens before the call
\*   preFile    the file before the call
\*   prevOp, prevResult, prevWrote  the call before this one
\*   written    the token array that was rendered into the file
\*   target     insertEntries: index of the top-level list that took the entries
NoCall ==
  [op |-> "none", version |-> NoArg, changeType |-> NoArg, group |-> NULL,
   entries |-> <<>>, fromVersion |-> NoArg, toVersion |-> NoArg,
   result |-> "ok", versions |-> <<>>, changes |-> NoChanges, str |-> NULL,
   exists |-> FALSE, pre |-> <<>>, preTokens |-> NullTokens, preFile |-> NoFile,
   prevOp |-> "none", prevResult |-> "ok", prevWrote |-> FALSE,
   written |-> <<>>, wrote |-> FALSE, target |-> 0]

Called(op) ==
  [NoCall EXCEPT !.op = op, !.preTokens = tokens, !.preFile = file,
                 !.prevOp = call.op, !.prevResult = call.result,
                 !.prevWrote = call.wrote]

\* ------------------------------------------------------------------------
\* Inputs
\* ------------------------------------------------------------------------

Master == Str("master")
Unpublished == Str("unpublished")
V100 == <<"1", ".", "0", ".", "0">>
V200 == <<"2", ".", "0", ".", "0">>
V999 == <<"9", ".", "9", ".", "9">>

\* The k-th entry; every second one names a pull request and an author.
Entry(k) ==
  [message |-> <<"entry", NumStr(k)>>,
   pullRequests |-> IF k % 2 = 0 THEN <<k>> ELSE <<>>,
   authors |-> IF k % 2 = 0 THEN <<Str("alice")>> ELSE <<>>]

EntryLists == {[k \in 1..n |-> Entry(k)] : n \in 0..MaxEntries}

GroupArgs == {NULL, Str("expo-foo")}

\* Top-level tokens of the documents the file starts with.
Title == HeadingToken(1, Str("Changelog"))

PlainList == ListToken(0, <<createListItemToken(Str("fixed-x"), 0)>>, FALSE)

GroupedList ==
  ListToken(0,
    <<ListItemToken(0, getGroupLabel(Str("expo-foo")) \o <<"\n", "-", " ", "added-y">>,
        <<createTextToken(getGroupLabel(Str("expo-foo"))),
          ListToken(1, <<createListItemToken(Str("added-y"), 1)>>, FALSE)>>)>>,
    FALSE)

Note == ParagraphToken(Str("note"))

NoAdjacentLists(doc) ==
  \A i \in 1..(Len(doc) - 1) : ~(doc[i].type = LIST /\ doc[i + 1].type = LIST)

\* The documents of at most MaxDocLen top-level tokens over an alphabet.  Two
\* lists in a row are left out: in markdown they are one list.
DocsOver(alphabet) ==
  {doc \in UNION {[1..n -> alphabet] : n \in 0..MaxDocLen} : NoAdjacentLists(doc)}

FilesOf(docs) == {NoFile} \cup {render(doc) : doc \in docs}

\* ------------------------------------------------------------------------
\* Operations of Changelog.  In each operation that starts with
\* `await this.getTokensAsync()`, loaded is what that call resolves to.
\* ------------------------------------------------------------------------

\* The merge-changelogs command when it is not running.
NoMerge == [pc |-> "none"]

InitWith(files) ==
  /\ file \in files
  /\ tokens = NullTokens
  /\ call = NoCall
  /\ calls = 0
  /\ merge = NoMerge

Loaded == getTokens(tokens, file)

FileExists ==
  /\ call' = [Called("fileExists") EXCEPT !.exists = (file # NoFile)]
  /\ calls' = calls + 1
  /\ UNCHANGED <<file, tokens>>

GetTokens(loaded) ==
  /\ tokens' = loaded
  /\ call' = [Called("getTokens") EXCEPT !.pre = loaded]
  /\ calls' = calls + 1
  /\ UNCHANGED file

GetVersions(loaded) ==
  /\ tokens' = loaded
  /\ call' = [Called("getVersions") EXCEPT !.pre = loaded, !.versions = getVersions(loaded)]
  /\ calls' = calls + 1
  /\ UNCHANGED file

GetLastPublishedVersion(loaded) ==
  /\ tokens' = loaded
  /\ call' = [Called("getLastPublishedVersion") EXCEPT
                !.pre = loaded, !.str = getLastPublishedVersion(loaded)]
  /\ calls' = calls + 1
  /\ UNCHANGED file

GetChanges(loaded, fromVersion, toVersion) ==
  /\ tokens' = loaded
  /\ call' = LET changes == getChanges(loaded, fromVersion, toVersion)
             IN [Called("getChanges") EXCEPT
                   !.pre = loaded, !.fromVersion = fromVersion, !.toVersion = toVersion,
                   !.changes = changes,
                   !.result = IF changes = TypeErrorThrown THEN "TypeError" ELSE "ok"]
  /\ calls' = calls + 1
  /\ UNCHANGED file

\* Faulty variant of ChangelogRender: tokens that are not loaded render as
\* an empty document.
ChangelogRenderUnchecked(cached) ==
  IF cached = NullTokens THEN [result |-> "ok", str |-> render(<<>>)]
  ELSE IF ~Renderable(cached) THEN [result |-> "UnsupportedTokenKind", str |-> NULL]
  ELSE [result |-> "ok", str |-> render(cached)]

\* What Changelog.render() returns or throws for the cached tokens.
ChangelogRender(cached) ==
  IF cached = NullTokens THEN [result |-> "TokensNotLoaded", str |-> NULL]
  ELSE IF ~Renderable(cached) THEN [result |-> "UnsupportedTokenKind", str |-> NULL]
  ELSE [result |-> "ok", str |-> render(cached)]

\* Changelog.render()
Render ==
  /\ call' = LET r == ChangelogRender(tokens)
             IN [Called("render") EXCEPT
                   !.result = r.result, !.str = r.str,
                   !.pre = IF tokens = NullTokens THEN <<>> ELSE tokens]
  /\ calls' = calls + 1
  /\ UNCHANGED <<file, tokens>>

\* Faulty variant of SavedContent: with no tokens cached an empty document is written.
SavedContentOrEmpty(cached, content) ==
  IF cached = NullTokens THEN render(<<>>) ELSE render(cached)

\* Faulty variant of SavedTokens: the cache is kept.
SavedTokensKept(cached) == cached

\* Faulty variant of SavedTokens: the cache is reset to an empty array.
SavedTokensEmpty(cached) == <<>>

\* What the file holds after saveAsync returned: nothing is written when no
\* tokens are cached.
SavedContent(cached, content) ==
  IF cached = NullTokens THEN content ELSE render(cached)

\* Changelog.tokens after saveAsync wrote the file.
SavedTokens(cached) == NullTokens

\* saveAsync; writeOk is whether fs.outputFile succeeds.
Save(writeOk) ==
  /\ calls' = calls + 1
  /\ IF tokens = NullTokens
     THEN /\ call' = Called("save")
          /\ file' = SavedContent(tokens, file)
          /\ UNCHANGED tokens
     ELSE IF ~Renderable(tokens)
     THEN /\ call' = [Called("save") EXCEPT !.result = "UnsupportedTokenKind", !.pre = tokens]
          /\ UNCHANGED <<file, tokens>>
     ELSE IF ~writeOk
     THEN /\ call' = [Called("save") EXCEPT !.result = "WriteError", !.pre = tokens]
          /\ UNCHANGED <<file, tokens>>
     ELSE /\ file' = SavedContent(tokens, file)
          /\ tokens' = SavedTokens(tokens)
          /\ call' = [Called("save") EXCEPT !.pre = tokens, !.written = tokens, !.wrote = TRUE]

\* Faulty variant of InsertEntries: a call without entries goes on as well.
InsertEntriesAlways(loaded, version, changeType, group, entries) ==
  LET r == insertEntries(loaded, version, changeType, group, entries)
  IN /\ calls' = calls + 1
     /\ tokens' = r.tokens
     /\ call' = [Called("insertEntries") EXCEPT
                   !.version = version, !.changeType = changeType,
                   !.group = group, !.entries = entries, !.pre = loaded,
                   !.result = r.result, !.target = r.target]
     /\ UNCHANGED file

\* insertEntriesAsync: with no entries it returns before it loads anything.
InsertEntries(loaded, version, changeType, group, entries) ==
  /\ calls' = calls + 1
  /\ IF Len(entries) = 0
     THEN /\ call' = [Called("insertEntries") EXCEPT
                        !.version = version, !.changeType = changeType,
                        !.group = group, !.entries = entries, !.pre = loaded]
          /\ UNCHANGED <<file, tokens>>
     ELSE
       LET r == insertEntries(loaded, version, changeType, group, entries)
       IN /\ tokens' = r.tokens
          /\ call' = [Called("insertEntries") EXCEPT
                        !.version = version, !.changeType = changeType,
                        !.group = group, !.entries = entries, !.pre = loaded,
                        !.result = r.result, !.target = r.target]
          /\ UNCHANGED file

\* cutOffAsync; writeOk is whether fs.outputFile succeeds.  When rendering or
\* writing fails the cache stays, with its first version heading renamed.
CutOff(loaded, version, writeOk) ==
  LET out == cutOff(loaded, version)
  IN /\ calls' = calls + 1
     /\ IF ~Renderable(out)
        THEN /\ tokens' = RenameFirstVersion(loaded, version)
             /\ call' = [Called("cutOff") EXCEPT
                           !.version = version, !.pre = loaded,
                           !.result = "UnsupportedTokenKind"]
             /\ UNCHANGED file
        ELSE IF ~writeOk
        THEN /\ tokens' = RenameFirstVersion(loaded, version)
             /\ call' = [Called("cutOff") EXCEPT
                           !.version = version, !.pre = loaded, !.result = "WriteError"]
             /\ UNCHANGED file
        ELSE /\ file' = render(out)
             /\ tokens' = NullTokens
             /\ call' = [Called("cutOff") EXCEPT
                           !.version = version, !.pre = loaded,
                           !.written = out, !.wrote = TRUE]

\* addChangeAsync: one entry that carries its version, type and group name.
AddChange(loaded, entry) ==
  InsertEntries(loaded, entry.version, entry.type, entry.groupName, <<entry>>)

\* ------------------------------------------------------------------------
\* Spec: the life of one instance.  Any operation may follow any other, up to
\* MaxCalls calls, on a few sample files.
\* ------------------------------------------------------------------------

SampleDocs ==
  { <<>>,
    <<Title, HeadingToken(2, Master), HeadingToken(3, BUG_FIXES), PlainList,
      HeadingToken(2, V100), HeadingToken(3, BUG_FIXES), PlainList>>,
    <<HeadingToken(2, Master), HeadingToken(3, NEW_FEATURES), HeadingToken(3, BUG_FIXES)>> }

\* Files with a block quote, a kind the renderer has no case for: one at top
\* level and one inside a list item.
QuoteFiles ==
  { render(<<HeadingToken(2, Master), HeadingToken(3, BUG_FIXES)>>)
      \o <<"\n", ">", " ", "quote", "\n">>,
    render(<<HeadingToken(2, Master), HeadingToken(3, BUG_FIXES), PlainList>>)
      \o <<" ", " ", ">", " ", "quote", "\n">> }

Init == InitWith(FilesOf(SampleDocs) \cup QuoteFiles)

Next ==
  /\ calls < MaxCalls
  /\ UNCHANGED merge
  /\ LET loaded == Loaded
     IN \/ FileExists
        \/ GetTokens(loaded)
        \/ GetVersions(loaded)
        \/ GetLastPublishedVersion(loaded)
        \/ GetChanges(loaded, NoArg, NoArg)
        \/ Render
        \/ \E writeOk \in BOOLEAN : Save(writeOk)
        \/ \E v \in {Master, V999}, g \in GroupArgs, es \in EntryLists :
             InsertEntries(loaded, v, BUG_FIXES, g, es)
        \/ \E writeOk \in BOOLEAN : CutOff(loaded, V200, writeOk)

Spec == Init /\ [][Next]_vars

\* ------------------------------------------------------------------------
\* SpecInsert: one insertEntries call on every document of a family.
\* ------------------------------------------------------------------------

InsertAlphabet ==
  { HeadingToken(2, Master), HeadingToken(2, V100),
    HeadingToken(3, BUG_FIXES), HeadingToken(3, NEW_FEATURES),
    PlainList, GroupedList }

InitInsert == InitWith(FilesOf(DocsOver(InsertAlphabet)))

NextInsert ==
  /\ calls = 0
  /\ UNCHANGED merge
  /\ LET loaded == Loaded
     IN \E v \in {Master, V100, V999}, t \in {BUG_FIXES, NEW_FEATURES},
           g \in GroupArgs, es \in EntryLists :
          InsertEntries(loaded, v, t, g, es)

SpecInsert == InitInsert /\ [][NextInsert]_vars

\* ------------------------------------------------------------------------
\* SpecCutOff: one cutOff call on every document of a family.
\* ------------------------------------------------------------------------

CutOffAlphabet ==
  { Title, HeadingToken(2, Master), HeadingToken(2, V100),
    HeadingToken(3, BUG_FIXES), HeadingToken(3, NEW_FEATURES),
    PlainList, Note }

InitCutOff == InitWith(FilesOf(DocsOver(CutOffAlphabet)))

NextCutOff ==
  /\ calls = 0
  /\ UNCHANGED merge
  /\ LET loaded == Loaded
     IN \E writeOk \in BOOLEAN : CutOff(loaded, V200, writeOk)

SpecCutOff == InitCutOff /\ [][NextCutOff]_vars

\* ------------------------------------------------------------------------
\* SpecChanges: one getChanges call on every document of a family.
\* ------------------------------------------------------------------------

ChangesAlphabet ==
  { HeadingToken(2, Master), HeadingToken(2, Unpublished), HeadingToken(2, V100),
    HeadingToken(3, BUG_FIXES), HeadingToken(3, NEW_FEATURES),
    PlainList, GroupedList }

InitChanges == InitWith(FilesOf(DocsOver(ChangesAlphabet)))

NextChanges ==
  /\ calls = 0
  /\ UNCHANGED merge
  /\ LET loaded == Loaded
     IN \E f \in {NoArg, V100}, t \in {NoArg, Master, V100} :
          GetChanges(loaded, f, t)

SpecChanges == InitChanges /\ [][NextChanges]_vars

\* ------------------------------------------------------------------------
\* SpecInsertSeq: up to MaxCalls insertEntries and addChange calls in a row
\* on one instance, with no save between them.
\* ------------------------------------------------------------------------

OtherGroup == Str("expo-bar")

ChangelogEntry(k, version, type, groupName) ==
  [message |-> <<"change", NumStr(k)>>, pullRequests |-> <<>>, authors |-> <<>>,
   type |-> type, version |-> version, groupName |-> groupName]

InsertSeqDocs ==
  { <<HeadingToken(2, Master), HeadingToken(3, BUG_FIXES), HeadingToken(3, NEW_FEATURES)>>,
    <<Title, HeadingToken(2, Master), HeadingToken(3, BUG_FIXES), PlainList,
      HeadingToken(3, NEW_FEATURES), GroupedList,
      HeadingToken(2, V100), HeadingToken(3, BUG_FIXES), PlainList>>,
    <<HeadingToken(2, Master), HeadingToken(3, BUG_FIXES), GroupedList>>,
    <<HeadingToken(2, Master), HeadingToken(3, NEW_FEATURES), Note,
      HeadingToken(2, V100), HeadingToken(3, BUG_FIXES)>> }

InitInsertSeq == InitWith(FilesOf(InsertSeqDocs))

NextInsertSeq ==
  /\ calls < MaxCalls
  /\ UNCHANGED merge
  /\ LET loaded == Loaded
     IN \/ \E v \in {Master, V100}, t \in {BUG_FIXES, NEW_FEATURES},
              g \in GroupArgs \cup {OtherGroup} :
             InsertEntries(loaded, v, t, g, [k \in 1..MaxEntries |-> Entry(k)])
        \/ AddChange(loaded, ChangelogEntry(1, Master, BUG_FIXES, OtherGroup))

SpecInsertSeq == InitInsertSeq /\ [][NextInsertSeq]_vars

\* ------------------------------------------------------------------------
\* SpecRender: render and save on every tree of at most MaxTreeLen top-level
\* tokens of the seven kinds, put into Changelog.tokens by a caller.
\* ------------------------------------------------------------------------

RenderAlphabet ==
  { Title, HeadingToken(3, BUG_FIXES), PlainList, GroupedList, Note,
    ParagraphToken(<<"note", " ">>), ParagraphToken(<<" ">>), SpaceToken,
    CodeToken(<<"code">>, Str("js")), createTextToken(Str("text")),
    createListItemToken(Str("item"), 0), ListToken(0, <<>>, FALSE),
    ListToken(0, <<ListItemToken(0, Str("step"),
                     <<createTextToken(Str("step")), CodeToken(<<"code">>, <<>>)>>)>>, TRUE) }

RenderTrees == UNION {[1..n -> RenderAlphabet] : n \in 0..MaxTreeLen}

InitRender ==
  /\ file = NoFile
  /\ tokens \in RenderTrees
  /\ call = NoCall
  /\ calls = 0
  /\ merge = NoMerge

NextRender ==
  /\ calls = 0
  /\ UNCHANGED merge
  /\ \/ Render
     \/ \E writeOk \in BOOLEAN : Save(writeOk)

SpecRender == InitRender /\ [][NextRender]_vars

\* ------------------------------------------------------------------------
\* SpecMerge: the merge-changelogs command.  The callbacks of Promise.all run
\* interleaved: each one goes on when its own await resolves, in any order.
\* The aggregate changelog is the instance of file and tokens.
\* ------------------------------------------------------------------------

MaxPackages == 2

\* The property order of the objects getChangesAsync builds: <<version>> when
\* versions[version] is created and <<version, type>> when
\* versions[version][type] is created, in the order of creation.
RECURSIVE getChangesKeys(_, _, _, _, _, _)
getChangesKeys(toks, i, fromVersion, toVersion, currentVersion, keys) ==
  IF i > Len(toks) THEN keys
  ELSE
    LET token == toks[i]
        seen == {keys[k] : k \in 1..Len(keys)}
    IN
    IF token.type = HEADING /\ token.depth = VERSION_HEADING_DEPTH THEN
      IF LoopBreaks(token, fromVersion, toVersion) THEN keys
      ELSE LET cv == IF token.text \in UNPUBLISHED_VERSION_NAMES
                     THEN Str("unpublished") ELSE token.text
           IN getChangesKeys(toks, i + 1, fromVersion, toVersion, cv,
                             IF <<cv>> \in seen \/ cv \in InheritedKeys THEN keys
                             ELSE Append(keys, <<cv>>))
    ELSE IF /\ token.type = HEADING /\ ~Falsy(currentVersion)
            /\ token.depth = CHANGE_TYPE_HEADING_DEPTH
    THEN getChangesKeys(toks, i + 1, fromVersion, toVersion, currentVersion,
                        IF \/ <<currentVersion>> \notin seen
                           \/ <<currentVersion, token.text>> \in seen
                           \/ token.text \in InheritedKeys
                        THEN keys
                        ELSE Append(keys, <<currentVersion, token.text>>))
    ELSE getChangesKeys(toks, i + 1, fromVersion, toVersion, currentVersion, keys)

\* Object.entries(versions) and `for (const type in changes)` follow the
\* order of creation.
RECURSIVE VersionKeys(_)
VersionKeys(keys) ==
  IF keys = <<>> THEN <<>>
  ELSE (IF Len(keys[1]) = 1 THEN <<keys[1][1]>> ELSE <<>>) \o VersionKeys(Tail(keys))

RECURSIVE TypeKeys(_, _)
TypeKeys(keys, version) ==
  IF keys = <<>> THEN <<>>
  ELSE (IF Len(keys[1]) = 2 /\ keys[1][1] = version THEN <<keys[1][2]>> ELSE <<>>)
       \o TypeKeys(Tail(keys), version)

\* The package names in the order of their code units.
NameOrder == <<Str("expo-a"), Str("expo-b"), Str("expo-c"), Str("expo-d")>>

NameRank(name) == CHOOSE r \in 1..Len(NameOrder) : NameOrder[r] = name

\* Faulty variant of sort: the keys stay in the order of their creation.
sortKept(names) == names

\* Array.prototype.sort() on package names.
RECURSIVE sort(_)
sort(names) ==
  IF names = <<>> THEN <<>>
  ELSE LET m == CHOOSE k \in 1..Len(names) :
                  \A j \in 1..Len(names) : NameRank(names[k]) <= NameRank(names[j])
       IN <<names[m]>> \o sort(RemoveAt(names, m))

\* getListOfPackagesAsync(): the packages in the order of the listing.
Packages == SubSeq(<<Str("expo-b"), Str("expo-a"), Str("expo-c"), Str("expo-d")>>, 1, MaxPackages)

PackageNames == {Packages[k] : k \in 1..Len(Packages)}

OtherList == ListToken(0, <<createListItemToken(Str("added-z"), 0)>>, FALSE)

\* The changelog files a package may have: none, one without entries, one
\* with a fix, one with an empty change type before the fix, and one with
\* two change types in another order than the aggregate changelog has them.
PackageFiles ==
  { NoFile,
    render(<<HeadingToken(2, Master), HeadingToken(3, BUG_FIXES)>>),
    render(<<HeadingToken(2, Master), HeadingToken(3, BUG_FIXES), PlainList>>),
    render(<<HeadingToken(2, Master), HeadingToken(3, NEW_FEATURES),
             HeadingToken(3, BUG_FIXES), PlainList>>),
    render(<<HeadingToken(2, Master), HeadingToken(3, BUG_FIXES), PlainList,
             HeadingToken(3, NEW_FEATURES), OtherList>>) }

GroupOf(name, items) ==
  ListItemToken(0, getGroupLabel(name),
    <<createTextToken(getGroupLabel(name)), ListToken(1, items, FALSE)>>)

\* The aggregate changelog: one with every section, and one without a section
\* for new features that already holds a group of a package.
MainFiles ==
  { render(<<Title, HeadingToken(2, Master), HeadingToken(3, BREAKING_CHANGES),
             HeadingToken(3, NEW_FEATURES), HeadingToken(3, BUG_FIXES),
             HeadingToken(2, V100), HeadingToken(3, BUG_FIXES), PlainList>>),
    render(<<HeadingToken(2, Master), HeadingToken(3, BUG_FIXES),
             ListToken(0, <<GroupOf(Str("expo-a"),
                                    <<ListItemToken(1, Str("old-fix"),
                                        <<createTextToken(Str("old-fix"))>>)>>)>>, FALSE)>>) }

\* One package's callback: where it stands, its Changelog instance (file and
\* tokens) and the changes it got.
PackageStart(content) ==
  [pc |-> "fileExists", file |-> content, tokens |-> NullTokens, changes |-> NoChanges,
   keys |-> <<>>]

\* merge.changelogChanges holds the keys of changelogChanges in the order of
\* their creation; the value of key k is merge.pkg[k].changes.
InitMerge ==
  /\ file \in MainFiles
  /\ tokens = NullTokens
  /\ call = NoCall
  /\ calls = 0
  /\ \E files \in [PackageNames -> PackageFiles] :
       merge = [pc |-> "loading",
                pkg |-> [n \in PackageNames |-> PackageStart(files[n])],
                changelogChanges |-> <<>>,
                pending |-> <<>>,
                issued |-> <<>>,
                mainFile |-> file]

\* await changelog.fileExistsAsync() resolves: the callback returns when the
\* file does not exist and calls getChangesAsync() otherwise.
PackageFileExists(name) ==
  /\ merge.pc = "loading"
  /\ merge.pkg[name].pc = "fileExists"
  /\ merge' = [merge EXCEPT !.pkg[name].pc =
                 IF merge.pkg[name].file = NoFile THEN "done" ELSE "getChanges"]
  /\ UNCHANGED <<file, tokens, call, calls>>

\* await changelog.getChangesAsync() resolves: the instance has loaded its
\* tokens and scanned them.
PackageGetChanges(name) ==
  /\ merge.pc = "loading"
  /\ merge.pkg[name].pc = "getChanges"
  /\ LET p == merge.pkg[name]
         loaded == getTokens(p.tokens, p.file)
     IN merge' = [merge EXCEPT
                    !.pkg[name].pc = "record",
                    !.pkg[name].tokens = loaded,
                    !.pkg[name].changes = getChanges(loaded, NoArg, NoArg),
                    !.pkg[name].keys = getChangesKeys(loaded, 1, NoArg,
                                                      UNPUBLISHED_VERSION_NAME, NULL, <<>>)]
  /\ UNCHANGED <<file, tokens, call, calls>>

\* Whether the callback records the changes of its package.
Recorded(changes) == changes.totalCount > 0

\* The callback goes on after the await: changelogChanges[pkg.packageName] = changes
PackageRecord(name) ==
  /\ merge.pc = "loading"
  /\ merge.pkg[name].pc = "record"
  /\ merge' = [merge EXCEPT
                 !.pkg[name].pc = "done",
                 !.changelogChanges =
                   IF Recorded(merge.pkg[name].changes) THEN Append(@, name) ELSE @]
  /\ UNCHANGED <<file, tokens, call, calls>>

\* The entries of one insertEntriesAsync call of the loop: { message } for
\* each entry text.
MessageEntries(texts) ==
  [k \in 1..Len(texts) |-> [message |-> texts[k], pullRequests |-> <<>>, authors |-> <<>>]]

RECURSIVE TypeCalls(_, _, _, _)
TypeCalls(name, changes, version, types) ==
  IF types = <<>> THEN <<>>
  ELSE <<[packageName |-> name, type |-> types[1],
          entries |-> MessageEntries(changes.versions[version][types[1]])]>>
       \o TypeCalls(name, changes, version, Tail(types))

RECURSIVE VersionCalls(_, _, _, _)
VersionCalls(name, changes, keys, versions) ==
  IF versions = <<>> THEN <<>>
  ELSE TypeCalls(name, changes, versions[1], TypeKeys(keys, versions[1]))
       \o VersionCalls(name, changes, keys, Tail(versions))

\* The insertEntriesAsync calls the three loops make for the packages in the
\* order given, when none of them throws.
RECURSIVE LoopCalls(_, _)
LoopCalls(names, pkg) ==
  IF names = <<>> THEN <<>>
  ELSE VersionCalls(names[1], pkg[names[1]].changes, pkg[names[1]].keys,
                    VersionKeys(pkg[names[1]].keys))
       \o LoopCalls(Tail(names), pkg)

\* Promise.all resolved: the keys are sorted and the aggregate changelog loads
\* its tokens.
MergeGetTokens ==
  /\ merge.pc = "loading"
  /\ \A n \in PackageNames : merge.pkg[n].pc = "done"
  /\ GetTokens(Loaded)
  /\ merge' = [merge EXCEPT
                 !.pc = "inserting",
                 !.pending = LoopCalls(sort(merge.changelogChanges), merge.pkg)]

\* The next insertEntriesAsync call of the loops, awaited before the one
\* after it; an error it throws ends the command.
MergeInsertEntries ==
  /\ merge.pc = "inserting"
  /\ merge.pending # <<>>
  /\ LET c == merge.pending[1]
     IN InsertEntries(Loaded, UNPUBLISHED_VERSION_NAME, c.type, c.packageName, c.entries)
  /\ merge' = [merge EXCEPT
                 !.pc = IF call'.result = "ok" THEN "inserting" ELSE "failed",
                 !.pending = Tail(@),
                 !.issued = Append(@, merge.pending[1])]

\* await mainChangelog.saveAsync()
MergeSave(writeOk) ==
  /\ merge.pc = "inserting"
  /\ merge.pending = <<>>
  /\ Save(writeOk)
  /\ merge' = [merge EXCEPT !.pc = IF call'.result = "ok" THEN "done" ELSE "failed"]

NextMerge ==
  \/ \E name \in PackageNames : PackageFileExists(name)
  \/ \E name \in PackageNames : PackageGetChanges(name)
  \/ \E name \in PackageNames : PackageRecord(name)
  \/ MergeGetTokens
  \/ MergeInsertEntries
  \/ \E writeOk \in BOOLEAN : MergeSave(writeOk)

SpecMerge == InitMerge /\ [][NextMerge]_vars

\* ------------------------------------------------------------------------
\* SpecRange: one getChanges(fromVersion, toVersion) call on every changelog
\* of at most MaxSections version sections with different versions.
\* ------------------------------------------------------------------------

MaxSections == 3

V300 == <<"3", ".", "0", ".", "0">>

RangeVersions == {Master, V300, V200, V100}

FixIn(version) ==
  ListToken(0, <<createListItemToken(<<"fix-in-">> \o version, 0)>>, FALSE)

\* A version section: its heading alone, or its heading and one fix.
Section(version, kind) ==
  IF kind = "empty" THEN <<HeadingToken(2, version)>>
  ELSE <<HeadingToken(2, version), HeadingToken(3, BUG_FIXES), FixIn(version)>>

RECURSIVE Sections(_, _)
Sections(versions, kinds) ==
  IF versions = <<>> THEN <<>>
  ELSE Section(versions[1], kinds[1]) \o Sections(Tail(versions), Tail(kinds))

RangeDocs ==
  UNION {{Sections(vs, ks) :
            vs \in {s \in [1..n -> RangeVersions] :
                      \A a, b \in 1..n : s[a] = s[b] => a = b},
            ks \in [1..n -> {"empty", "fix"}]}
         : n \in 0..MaxSections}

InitRange == InitWith(FilesOf(RangeDocs))

NextRange ==
  /\ calls = 0
  /\ UNCHANGED merge
  /\ LET loaded == Loaded
     IN \E f \in {V100, V200}, t \in {NoArg, Master, V200, V300} :
          GetChanges(loaded, f, t)

SpecRange == InitRange /\ [][NextRange]_vars

\* ------------------------------------------------------------------------
\* SpecFix: lexify's normalization on the token arrays marked.lexer returns,
\* with lists nested up to MaxNesting levels.  A token of the tokenizer
\* carries the source text it was made from in raw; its lists and list items
\* carry no depth, and its list items have the type list_item.
\* ------------------------------------------------------------------------

MaxNesting == 2

Raw == <<"<raw>">>

MarkedText == [type |-> TEXT, raw |-> Raw, text |-> Str("item")]

MarkedItem(children) ==
  [type |-> "list_item", raw |-> Raw, depth |-> Undefined, text |-> Str("item"),
   tokens |-> children]

MarkedList(items) ==
  [type |-> LIST, raw |-> Raw, depth |-> Undefined, items |-> items, ordered |-> FALSE]

\* The lists with lists nested in them down to n more levels: one item, or
\* one item and a plain item after it.
RECURSIVE MarkedLists(_)
MarkedLists(n) ==
  LET items == {MarkedItem(<<MarkedText>>)}
                 \cup (IF n = 0 THEN {}
                       ELSE {MarkedItem(<<MarkedText, l>>) : l \in MarkedLists(n - 1)})
  IN {MarkedList(<<x>>) : x \in items}
       \cup {MarkedList(<<x, MarkedItem(<<MarkedText>>)>>) : x \in items}

MarkedAlphabet ==
  { [type |-> HEADING, raw |-> Raw, depth |-> 2, text |-> Str("master")],
    [type |-> PARAGRAPH, raw |-> Raw, text |-> Str("note")],
    [type |-> SPACE, raw |-> Raw] }
    \cup MarkedLists(MaxNesting)

MarkedTrees == UNION {[1..n -> MarkedAlphabet] : n \in 0..2}

\* call.pre holds what marked.lexer(text) returned.
InitFix ==
  /\ file = NoFile
  /\ tokens = NullTokens
  /\ \E marked \in MarkedTrees : call = [NoCall EXCEPT !.pre = marked]
  /\ calls = 0
  /\ merge = NoMerge

\* lexify: recursivelyFixTokens(tokens) on the tokenizer's array.
Lexify ==
  /\ calls = 0
  /\ tokens' = recursivelyFixTokens(call.pre, 0)
  /\ call' = [call EXCEPT !.op = "lexify"]
  /\ calls' = calls + 1
  /\ UNCHANGED <<file, merge>>

NextFix == Lexify

SpecFix == InitFix /\ [][NextFix]_vars

\* ------------------------------------------------------------------------
\* SpecKeys: one getChanges call on every document of a family whose headings
\* include names that every JavaScript object inherits.
\* ------------------------------------------------------------------------

Constructor == Str("constructor")

TwoList ==
  ListToken(0, <<createListItemToken(Str("fixed-a"), 0),
                 createListItemToken(Str("fixed-b"), 0)>>, FALSE)

KeysAlphabet ==
  { HeadingToken(2, Master), HeadingToken(2, Constructor),
    HeadingToken(3, BUG_FIXES), HeadingToken(3, Str("toString")),
    PlainList, TwoList }

InitKeys == InitWith(FilesOf(DocsOver(KeysAlphabet)))

NextKeys ==
  /\ calls = 0
  /\ UNCHANGED merge
  /\ LET loaded == Loaded
     IN \E f \in {NoArg, V100}, t \in {NoArg, Constructor} :
          GetChanges(loaded, f, t)

SpecKeys == InitKeys /\ [][NextKeys]_vars

\* ------------------------------------------------------------------------
\* Properties
\* ------------------------------------------------------------------------

IsHeading(token, depth) == token.type = HEADING /\ token.depth = depth

IsHeadingWith(token, depth, txt) == IsHeading(token, depth) /\ token.text = txt

\* The least element of a non-empty set of numbers, 0 for the empty set.
Least(S) == IF S = {} THEN 0 ELSE CHOOSE i \in S : \A k \in S : i <= k

\* The first depth-2 heading whose text is version, 0 if there is none.
VersionHeading(toks, version) ==
  Least({i \in 1..Len(toks) : IsHeadingWith(toks[i], 2, version)})

\* The heading of the requested change-type section of the requested version:
\* the first depth-3 heading with that text after the version heading and
\* before the next version heading, 0 if there is none.
RequestedSection(toks, version, changeType) ==
  LET v == VersionHeading(toks, version)
  IN IF v = 0 THEN 0
     ELSE Least({i \in (v + 1)..Len(toks) :
                   /\ IsHeadingWith(toks[i], 3, changeType)
                   /\ \A k \in (v + 1)..(i - 1) : ~IsHeading(toks[k], 2)})

\* The index after the section headed at h: the next heading of depth <= 3.
SectionEnd(toks, h) ==
  LET ends == {i \in (h + 1)..Len(toks) : toks[i].type = HEADING /\ toks[i].depth <= 3}
  IN IF ends = {} THEN Len(toks) + 1 ELSE Least(ends)

Inserted == call.op = "insertEntries" /\ call.result = "ok" /\ call.target > 0

\* C1: after a successful insertEntries with entries, the list that took the
\* new items (or holds the group that took them) lies inside the requested
\* change-type section of the requested version: after its depth-3 heading and
\* before the next heading of depth <= 3.
C1_ListInRequestedSection ==
  Inserted =>
    LET h == RequestedSection(call.pre, call.version, call.changeType)
    IN h > 0 /\ h < call.target /\ call.target < SectionEnd(tokens, h)

\* C2, as claimed: every insertEntries call for a version that has no depth-2
\* heading fails with VersionNotFound and changes neither the token tree's
\* content nor the file.
C2_EveryCallFails ==
  (call.op = "insertEntries" /\ VersionHeading(call.pre, call.version) = 0) =>
    /\ call.result = "VersionNotFound"
    /\ Loaded = call.pre
    /\ file = call.preFile

\* C2, amended: an insertEntries call with at least one entry for a version
\* that has no depth-2 heading fails with VersionNotFound and changes neither
\* the token tree's content nor the file.
C2_CallWithEntriesFails ==
  (/\ call.op = "insertEntries"
   /\ Len(call.entries) > 0
   /\ VersionHeading(call.pre, call.version) = 0) =>
    /\ call.result = "VersionNotFound"
    /\ Loaded = call.pre
    /\ file = call.preFile

C2_Witness ==
  /\ call.op = "insertEntries"
  /\ Len(call.entries) > 0
  /\ VersionHeading(call.pre, call.version) = 0
  /\ \E i \in 1..Len(call.pre) : IsHeading(call.pre[i], 2)
  /\ call.result = "VersionNotFound"

\* Scanning forward from the requested version heading, another version
\* heading comes before any change-type heading with the requested text.
MeetsVersionFirst(toks, version, changeType) ==
  LET v == VersionHeading(toks, version)
  IN /\ v > 0
     /\ \E w \in (v + 1)..Len(toks) :
          /\ IsHeading(toks[w], 2)
          /\ \A k \in (v + 1)..(w - 1) : ~IsHeadingWith(toks[k], 3, changeType)

\* C9: when the scan from the requested version heading meets another version
\* heading before a matching change-type heading, insertEntries returns
\* without error and the token tree is unchanged.
C9_SilentNoOp ==
  (/\ call.op = "insertEntries"
   /\ MeetsVersionFirst(call.pre, call.version, call.changeType)) =>
    /\ call.result = "ok"
    /\ call.target = 0
    /\ Loaded = call.pre
    /\ file = call.preFile

C9_Witness ==
  /\ call.op = "insertEntries"
  /\ Len(call.entries) > 0
  /\ MeetsVersionFirst(call.pre, call.version, call.changeType)
  /\ \E k \in 1..Len(call.pre) : IsHeadingWith(call.pre[k], 3, call.changeType)
  /\ call.result = "ok"

\* The requested version heading exists and nothing after it is a version
\* heading or a change-type heading with the requested text.
RunsOffEnd(toks, version, changeType) ==
  LET v == VersionHeading(toks, version)
  IN /\ v > 0
     /\ \A k \in (v + 1)..Len(toks) :
          ~IsHeading(toks[k], 2) /\ ~IsHeadingWith(toks[k], 3, changeType)

\* C10: insertEntries with entries fails with ChangeTypeSectionNotFound exactly
\* when the requested version heading exists and the scan from it reaches the
\* end of the document without meeting a matching change-type heading or
\* another version heading; the token tree is then unchanged.
C10_ChangeTypeNotFound ==
  (call.op = "insertEntries" /\ Len(call.entries) > 0) =>
    /\ (call.result = "ChangeTypeSectionNotFound")
         <=> RunsOffEnd(call.pre, call.version, call.changeType)
    /\ call.result = "ChangeTypeSectionNotFound" => tokens = call.pre /\ file = call.preFile

C10_Witness ==
  /\ call.op = "insertEntries"
  /\ call.result = "ChangeTypeSectionNotFound"
  /\ Len(call.pre) >= 3
  /\ tokens = call.pre

\* The first depth-2 heading, 0 if there is none.
FirstVersion(toks) == Least({i \in 1..Len(toks) : IsHeading(toks[i], 2)})

\* The first depth-2 heading after index k, Len(toks) + 1 if there is none.
NextVersion(toks, k) ==
  LET later == {i \in (k + 1)..Len(toks) : IsHeading(toks[i], 2)}
  IN IF later = {} THEN Len(toks) + 1 ELSE Least(later)

Suffix(seq, from) == SubSeq(seq, from, Len(seq))

Skeleton ==
  << HeadingToken(2, Str("master")), HeadingToken(3, Str("Breaking changes")),
     HeadingToken(3, Str("New features")), HeadingToken(3, Str("Bug fixes")) >>

\* C3: a successful cutOff(v) on a document with a version heading writes a
\* document in which the former first version heading reads v, the four
\* skeleton headings (master, Breaking changes, New features, Bug fixes) stand
\* directly before it, the tokens before the first version heading and the
\* later version sections are unchanged; the version list is then master, v
\* and the old list without its first element.
C3_CutOffStructure ==
  (call.op = "cutOff" /\ call.wrote /\ FirstVersion(call.pre) > 0) =>
    LET pre == call.pre
        out == call.written
        k == FirstVersion(pre)
        rest == Suffix(pre, NextVersion(pre, k))
    IN /\ Len(out) >= k + 4 + Len(rest)
       /\ SubSeq(out, 1, k - 1) = SubSeq(pre, 1, k - 1)
       /\ SubSeq(out, k, k + 3) = Skeleton
       /\ out[k + 4] = HeadingToken(2, call.version)
       /\ Suffix(out, Len(out) - Len(rest) + 1) = rest
       /\ getVersions(lexify(file))
            = <<Str("master"), call.version>> \o Tail(getVersions(pre))

\* The depth-3 heading a token of the section after the version heading k
\* stands under, 0 if no depth-3 heading comes between k and the token.
HeadingOver(toks, k, i) ==
  LET hs == {h \in (k + 1)..(i - 1) : IsHeading(toks[h], 3)}
  IN IF hs = {} THEN 0 ELSE CHOOSE h \in hs : \A g \in hs : g <= h

\* The number of items of the lists at the indices in S.
RECURSIVE ItemCount(_, _)
ItemCount(toks, S) ==
  IF S = {} THEN 0
  ELSE LET i == Least(S) IN Len(toks[i].items) + ItemCount(toks, S \ {i})

\* The texts of the items of the lists at the indices in S, in document order.
RECURSIVE TextsOf(_, _)
TextsOf(toks, S) ==
  IF S = {} THEN <<>>
  ELSE LET i == Least(S)
       IN [n \in 1..Len(toks[i].items) |-> toks[i].items[n].text]
            \o TextsOf(toks, S \ {i})

\* The lists of the section between version heading k and index e.
ListsIn(toks, k, e) == {i \in (k + 1)..(e - 1) : toks[i].type = LIST}

\* The entries of the section between version heading k and index e: for each
\* change-type heading text, the item texts of the lists under such a heading.
EntriesIn(toks, k, e) ==
  LET types == {toks[h].text : h \in {g \in (k + 1)..(e - 1) : IsHeading(toks[g], 3)}}
  IN [t \in types |->
        TextsOf(toks, {i \in ListsIn(toks, k, e) :
                         /\ HeadingOver(toks, k, i) > 0
                         /\ toks[HeadingOver(toks, k, i)].text = t})]

DefaultChanges ==
  /\ call.op = "getChanges" /\ call.fromVersion = NoArg /\ call.toVersion = NoArg
  /\ FirstVersion(call.pre) > 0

NextOtherVersion(toks, k) ==
  LET later == {i \in (k + 1)..Len(toks) :
                  IsHeading(toks[i], 2) /\ toks[i].text # Str("master")}
  IN IF later = {} THEN Len(toks) + 1 ELSE Least(later)

HeadedMaster(toks) == [toks EXCEPT ![FirstVersion(toks)].text = Str("master")]

\* C5: getChanges() on a changelog whose unpublished section is headed
\* unpublished returns what it returns on the same changelog headed master.
C5_UnpublishedAlias ==
  (DefaultChanges /\ call.pre[FirstVersion(call.pre)].text = Str("unpublished")) =>
    call.changes = getChanges(HeadedMaster(call.pre), NoArg, NoArg)

Uninitialized(cached) == cached = NullTokens

Reads == {"getTokens", "getVersions", "getLastPublishedVersion", "getChanges"}

Mutations == {"insertEntries", "cutOff"}

Resets == {"save", "cutOff"}

\* C6: the token cache goes from Uninitialized to Loaded only in a read
\* (getTokens, getVersions, getLastPublishedVersion, getChanges) or a mutation
\* (insertEntries, cutOff), and every read leaves it Loaded; it goes from
\* Loaded to Uninitialized in every successful save and every successful
\* cutOff and in no other call; the read after such a reset works on the
\* tokens lexed from the file just written.
C6_CacheStateMachine ==
  /\ (Uninitialized(call.preTokens) /\ ~Uninitialized(tokens))
       => call.op \in Reads \cup Mutations
  /\ call.op \in Reads => ~Uninitialized(tokens)
  /\ (~Uninitialized(call.preTokens) /\ Uninitialized(tokens))
       => (call.op \in Resets /\ call.result = "ok" /\ call.wrote)
  /\ (call.op \in Resets /\ call.result = "ok") => Uninitialized(tokens)
  /\ (call.op \in Reads /\ call.prevOp \in Resets /\ call.prevWrote)
       => (call.pre = lexify(call.preFile) /\ tokens = call.pre)

C6_Witness ==
  /\ call.op \in Reads
  /\ call.prevOp = "save"
  /\ call.prevWrote
  /\ Len(call.pre) > 4
  /\ tokens = lexify(file)

\* C7: save on an instance whose tokens are not loaded (never loaded, or reset
\* by the save or cutOff before) writes nothing, creates no file, raises no
\* error and leaves the instance Uninitialized.
C7_SaveUnloadedNoOp ==
  (call.op = "save" /\ Uninitialized(call.preTokens)) =>
    /\ file = call.preFile
    /\ ~call.wrote
    /\ call.result = "ok"
    /\ Uninitialized(tokens)

C7_Witness ==
  /\ call.op = "save"
  /\ Uninitialized(call.preTokens)
  /\ call.preFile = NoFile
  /\ file = NoFile
  /\ calls > 1

FileTree == getTokens(NullTokens, file)

IsGroupLabel(txt) == Len(txt) >= 2 /\ txt[1] = "**<bq>" /\ txt[Len(txt)] = "<bq>**"

\* The item is a group item: its first child is a text token with a group label.
IsGroupItem(item) ==
  /\ Len(item.tokens) > 0
  /\ item.tokens[1].type = TEXT
  /\ IsGroupLabel(item.tokens[1].text)

SubLists(item) == {n \in 1..Len(item.tokens) : item.tokens[n].type = LIST}

TopLists(tree) == {i \in 1..Len(tree) : tree[i].type = LIST}

\* Every top-level list holds at most one group item per label, and a group
\* item holds at most one sub-list.
GroupsUnique(tree) ==
  \A i \in TopLists(tree) :
    \A a, b \in 1..Len(tree[i].items) :
      LET x == tree[i].items[a]
          y == tree[i].items[b]
      IN /\ (IsGroupItem(x) /\ IsGroupItem(y) /\ x.tokens[1].text = y.tokens[1].text)
              => a = b
         /\ IsGroupItem(x) => Cardinality(SubLists(x)) <= 1

\* The last call put entries into a group that the list it went to had before.
InsertedIntoOldGroup ==
  /\ Inserted /\ call.group # NULL
  /\ Len(call.pre) = Len(tokens)
  /\ \E a \in 1..Len(call.pre[call.target].items) :
       LET x == call.pre[call.target].items[a]
       IN IsGroupItem(x) /\ x.tokens[1].text = getGroupLabel(call.group)

GroupItemOf(lst, group) ==
  lst.items[CHOOSE a \in 1..Len(lst.items) :
              /\ IsGroupItem(lst.items[a])
              /\ lst.items[a].tokens[1].text = getGroupLabel(group)]

SubListOf(item) == item.tokens[CHOOSE n \in SubLists(item) : TRUE]

\* C11: starting from a file whose tree has at most one group item per label
\* in every list, every list still has at most one group item per label after
\* any sequence of insertEntries calls; an insertion for a group the list has
\* already adds no item to the list and appends the entries to the group's
\* one sub-list.
C11_GroupsUnique ==
  (tokens # NullTokens /\ GroupsUnique(FileTree)) =>
    /\ GroupsUnique(tokens)
    /\ InsertedIntoOldGroup =>
         LET before == call.pre[call.target]
             after == tokens[call.target]
             old == GroupItemOf(before, call.group)
             new == GroupItemOf(after, call.group)
         IN /\ Len(after.items) = Len(before.items)
            /\ SubLists(old) # {} =>
                 /\ Len(new.tokens) = Len(old.tokens)
                 /\ Len(SubListOf(new).items)
                      = Len(SubListOf(old).items) + Len(call.entries)
                 /\ SubSeq(SubListOf(new).items, 1, Len(SubListOf(old).items))
                      = SubListOf(old).items

C11_Witness ==
  /\ calls >= 2
  /\ InsertedIntoOldGroup
  /\ call.group = OtherGroup
  /\ GroupsUnique(tokens)
  /\ \E a \in 1..Len(tokens[call.target].items) :
       IsGroupItem(tokens[call.target].items[a])
         /\ tokens[call.target].items[a].tokens[1].text = getGroupLabel(Str("expo-foo"))

\* Every list that is a direct child of the document has depth 0 and every
\* sub-list inside a group item has depth 1.
DepthsKept(tree) ==
  \A i \in TopLists(tree) :
    /\ tree[i].depth = 0
    /\ \A a \in 1..Len(tree[i].items) :
         IsGroupItem(tree[i].items[a]) =>
           \A n \in SubLists(tree[i].items[a]) : tree[i].items[a].tokens[n].depth = 1

\* C12: starting from a file whose tree keeps the depth convention, after any
\* sequence of grouped and ungrouped insertEntries calls every top-level list
\* has depth 0 and every sub-list of a group item has depth 1.
C12_DepthsKept ==
  (tokens # NullTokens /\ DepthsKept(FileTree)) => DepthsKept(tokens)

\* Every change-type section, from a depth-3 heading to the next heading of
\* depth <= 3, holds at most one list.
OneListPerSection(tree) ==
  \A h \in 1..Len(tree) :
    IsHeading(tree[h], 3) =>
      Cardinality({i \in (h + 1)..(SectionEnd(tree, h) - 1) : tree[i].type = LIST}) <= 1

\* C13: starting from a file in which every change-type section holds at most
\* one list, every change-type section still holds at most one list after any
\* sequence of insertEntries calls.
C13_OneListPerSection ==
  (tokens # NullTokens /\ OneListPerSection(FileTree)) => OneListPerSection(tokens)

C13_Witness ==
  /\ calls >= 2
  /\ Inserted
  /\ Len(tokens) = Len(call.pre) + 1
  /\ Len(call.pre) > Len(FileTree)
  /\ OneListPerSection(tokens)

\* C14: insertEntries, successful, skipped or failed, leaves the sequence that
\* getVersions returns as it was; a successful cutOff(v) changes it only by
\* renaming its first element to v and putting master before it.
C14_VersionsFrame ==
  /\ call.op = "insertEntries" => getVersions(Loaded) = getVersions(call.pre)
  /\ (call.op = "cutOff" /\ call.wrote) =>
       getVersions(Loaded)
         = IF getVersions(call.pre) = <<>> THEN <<Str("master")>>
           ELSE <<Str("master"), call.version>> \o Tail(getVersions(call.pre))

\* C15: a successful cutOff on a document without a version heading writes
\* the four skeleton headings followed by all tokens of the document in their
\* order, whatever the length of the document.
C15_SkeletonFirst ==
  (call.op = "cutOff" /\ call.wrote /\ FirstVersion(call.pre) = 0) =>
    call.written = Skeleton \o call.pre

Placeholder ==
  [type |-> PARAGRAPH, text |-> VERSION_EMPTY_PARAGRAPH_TEXT]

\* A change-type heading with nothing under it: the next token is a
\* change-type heading or a version heading, or there is none.
EmptyChangeType(toks, i) ==
  /\ IsHeading(toks[i], 3)
  /\ \/ i = Len(toks)
     \/ IsHeading(toks[i + 1], 3)
     \/ IsHeading(toks[i + 1], 2)

\* The tokens at the indices from..to that are not empty change-type headings.
RECURSIVE NonEmptyPart(_, _, _)
NonEmptyPart(toks, from, to) ==
  IF from > to THEN <<>>
  ELSE (IF EmptyChangeType(toks, from) THEN <<>> ELSE <<toks[from]>>)
         \o NonEmptyPart(toks, from + 1, to)

\* The heading cutOff renamed, in the written document: 0 if there is none.
Renamed(out, version) == VersionHeading(out, version)

\* C16: in the document a successful cutOff(v) writes for a document with a
\* version heading, the section renamed to v has no change-type heading that
\* is directly followed by a change-type heading, a version heading or the
\* end; it holds the tokens of the old first section without its empty
\* change-type headings, or the placeholder paragraph alone if none is left.
C16_CleanedSection ==
  (call.op = "cutOff" /\ call.wrote /\ FirstVersion(call.pre) > 0) =>
    LET pre == call.pre
        out == call.written
        k == FirstVersion(pre)
        kept == NonEmptyPart(pre, k + 1, NextVersion(pre, k) - 1)
        r == Renamed(out, call.version)
    IN /\ r > 0
       /\ \A i \in (r + 1)..(NextVersion(out, r) - 1) : ~EmptyChangeType(out, i)
       /\ SubSeq(out, r + 1, NextVersion(out, r) - 1)
            = IF kept = <<>> THEN <<Placeholder>> ELSE kept

\* C17: the first read on an instance whose file is missing or unreadable
\* does not fail: it loads the empty token sequence, getVersions returns the
\* empty sequence, getLastPublishedVersion returns none and getChanges returns
\* totalCount 0 with no versions; no file is created.
C17_MissingFileIsEmpty ==
  (call.op \in Reads /\ call.preFile = NoFile /\ Uninitialized(call.preTokens)) =>
    /\ call.result = "ok"
    /\ call.pre = <<>>
    /\ tokens = <<>>
    /\ file = NoFile
    /\ call.versions = <<>>
    /\ call.str = NULL
    /\ call.changes.totalCount = 0
    /\ DOMAIN call.changes.versions = {}

C17_Witness ==
  /\ call.op = "getChanges"
  /\ call.preFile = NoFile
  /\ Uninitialized(call.preTokens)
  /\ tokens = <<>>
  /\ call.changes.totalCount = 0

Kinds == {"heading", "list", "listItem", "paragraph", "text", "space", "code"}

\* The tree holds a token of another kind than the seven, at top level or
\* among the children of a list item.
RECURSIVE HasOtherKind(_)
HasOtherKind(tree) ==
  \E i \in 1..Len(tree) :
    \/ tree[i].type \notin Kinds
    \/ /\ tree[i].type = "list"
       /\ \E a \in 1..Len(tree[i].items) : HasOtherKind(tree[i].items[a].tokens)

\* C18: render on a cached tree that holds a token of another kind than the
\* seven fails with UnsupportedTokenKind and returns nothing; save and cutOff
\* on such a tree fail with it before they write: the file is unchanged and
\* the instance stays Loaded.
C18_UnsupportedKind ==
  /\ (call.op \in {"render", "save"} /\ ~Uninitialized(call.preTokens)
        /\ HasOtherKind(call.preTokens)) =>
       /\ call.result = "UnsupportedTokenKind"
       /\ call.str = NULL
       /\ ~call.wrote
       /\ file = call.preFile
       /\ tokens = call.preTokens
  /\ (call.op = "cutOff" /\ HasOtherKind(call.pre)) =>
       /\ call.result = "UnsupportedTokenKind"
       /\ ~call.wrote
       /\ file = call.preFile
       /\ ~Uninitialized(tokens)

C18_Witness ==
  /\ call.op = "save"
  /\ ~Uninitialized(call.preTokens)
  /\ HasOtherKind(call.preTokens)
  /\ \A i \in 1..Len(call.preTokens) : call.preTokens[i].type \in Kinds
  /\ call.result = "UnsupportedTokenKind"
  /\ file = call.preFile

\* C19, as claimed: render() fails with TokensNotLoaded whenever the instance
\* is Uninitialized, also right after a successful save or cutOff, and
\* whenever the instance is Loaded it returns the rendering of the cached
\* tree; it changes neither the cache nor the file.
C19_RenderByState ==
  call.op = "render" =>
    /\ Uninitialized(call.preTokens) => call.result = "TokensNotLoaded"
    /\ (call.prevOp \in Resets /\ call.prevWrote) => call.result = "TokensNotLoaded"
    /\ ~Uninitialized(call.preTokens) =>
         (call.result = "ok" /\ call.str = render(call.preTokens))
    /\ tokens = call.preTokens /\ file = call.preFile

\* C19, amended: render() fails with TokensNotLoaded whenever the instance is
\* Uninitialized, also right after a successful save or cutOff; when the
\* instance is Loaded it returns the rendering of the cached tree if the tree
\* holds only the seven kinds, and fails with UnsupportedTokenKind if not; it
\* changes neither the cache nor the file.
C19_RenderByStateAndKinds ==
  call.op = "render" =>
    /\ Uninitialized(call.preTokens) => (call.result = "TokensNotLoaded" /\ call.str = NULL)
    /\ (call.prevOp \in Resets /\ call.prevWrote) => call.result = "TokensNotLoaded"
    /\ (~Uninitialized(call.preTokens) /\ ~HasOtherKind(call.preTokens)) =>
         (call.result = "ok" /\ call.str = render(call.preTokens))
    /\ (~Uninitialized(call.preTokens) /\ HasOtherKind(call.preTokens)) =>
         call.result = "UnsupportedTokenKind"
    /\ tokens = call.preTokens /\ file = call.preFile

C19_Witness ==
  /\ call.op = "render"
  /\ call.prevOp = "cutOff"
  /\ call.prevWrote
  /\ Uninitialized(call.preTokens)
  /\ call.result = "TokensNotLoaded"

\* The text ends with a line break and the character before it, if there is
\* one, is not whitespace.
EndsWithOneBreak(str) ==
  /\ Len(str) >= 1
  /\ str[Len(str)] = "\n"
  /\ Len(str) >= 2 => str[Len(str) - 1] \notin {" ", "\n", "\t", "\r"}

\* C20: for every tree of the seven kinds, the empty tree too, the text that
\* render returns, and that save writes, ends with exactly one line break.
C20_OneTrailingBreak ==
  /\ (call.op = "render" /\ call.result = "ok") => EndsWithOneBreak(call.str)
  /\ (call.op = "save" /\ call.wrote) => EndsWithOneBreak(file)
  /\ (call.op \in {"render", "save"} /\ ~HasOtherKind(call.preTokens)
        /\ ~Uninitialized(call.preTokens))
       => call.result \in {"ok", "WriteError"}

C20_Witness ==
  /\ call.op = "render"
  /\ call.result = "ok"
  /\ Len(call.preTokens) = MaxTreeLen
  /\ call.preTokens[MaxTreeLen].type = HEADING
  /\ call.preTokens[1].type = SPACE
  /\ EndsWithOneBreak(call.str)

\* What structural equivalence compares of a token array: kinds, depths of
\* headings, lists and list items, texts, and the order of items and children.
\* The text of a list item is left out (it repeats the item's children).
RECURSIVE Shape(_)
Shape(toks) ==
  [i \in 1..Len(toks) |->
    LET t == toks[i] IN
    CASE t.type = HEADING -> [type |-> t.type, depth |-> t.depth, text |-> t.text]
      [] t.type = LIST -> [type |-> t.type, depth |-> t.depth, items |-> Shape(t.items)]
      [] t.type = LIST_ITEM -> [type |-> t.type, depth |-> t.depth, tokens |-> Shape(t.tokens)]
      [] t.type \in {PARAGRAPH, TEXT, CODE} -> [type |-> t.type, text |-> t.text]
      [] OTHER -> [type |-> t.type]]

\* Valid nesting: headings, lists, paragraphs, spaces and code at top level,
\* list items in lists only, and text, lists and code inside a list item.
RECURSIVE ValidNesting(_, _)
ValidNesting(toks, top) ==
  \A i \in 1..Len(toks) :
    /\ toks[i].type \in (IF top THEN {HEADING, LIST, PARAGRAPH, SPACE, CODE}
                         ELSE {TEXT, LIST, CODE})
    /\ toks[i].type = LIST =>
         \A k \in 1..Len(toks[i].items) :
           /\ toks[i].items[k].type = LIST_ITEM
           /\ ValidNesting(toks[i].items[k].tokens, FALSE)

RoundTrips(tree) == Shape(lexify(render(tree))) = Shape(tree)

RenderStable(tree) == render(lexify(render(tree))) = render(tree)

\* C21: every cached tree of the seven kinds with valid nesting, the trees
\* that insertEntries made included, is structurally equivalent to the tree
\* lexed from its rendering, and rendering that tree again gives the same text.
C21_RoundTrip ==
  (tokens # NullTokens /\ ValidNesting(tokens, TRUE))
    => RoundTrips(tokens) /\ RenderStable(tokens)

\* What each package's changelog file holds, read on its own.
FileChanges(content) ==
  LET t == getTokens(NullTokens, content)
  IN [changes |-> getChanges(t, NoArg, NoArg),
      keys |-> getChangesKeys(t, 1, NoArg, UNPUBLISHED_VERSION_NAME, NULL, <<>>)]

PackageChanges == [n \in PackageNames |-> FileChanges(merge.pkg[n].file)]

\* The packages with a changelog file that holds unpublished entries, in
\* ascending order of their names.
RECURSIVE NamesWithEntries(_)
NamesWithEntries(names) ==
  IF names = <<>> THEN <<>>
  ELSE (IF names[1] \in PackageNames /\ PackageChanges[names[1]].changes.totalCount > 0
        THEN <<names[1]>> ELSE <<>>)
       \o NamesWithEntries(Tail(names))

ExpectedCalls == LoopCalls(NamesWithEntries(NameOrder), PackageChanges)

\* The calls cs made one after another on the tree toks: the tree they leave,
\* the first error, and how many calls were made.
RECURSIVE ApplyCalls(_, _, _)
ApplyCalls(toks, cs, n) ==
  IF cs = <<>> THEN [result |-> "ok", tokens |-> toks, made |-> n]
  ELSE LET c == cs[1]
           r == IF Len(c.entries) = 0 THEN [result |-> "ok", tokens |-> toks]
                ELSE insertEntries(toks, Str("master"), c.type, c.packageName, c.entries)
       IN IF r.result # "ok" THEN [result |-> r.result, tokens |-> toks, made |-> n + 1]
          ELSE ApplyCalls(r.tokens, Tail(cs), n + 1)

Ascending(cs) ==
  \A a, b \in 1..Len(cs) :
    a < b => NameRank(cs[a].packageName) <= NameRank(cs[b].packageName)

MergeEnded == merge.pc \in {"done", "failed"}

\* C22: whatever the order in which the packages' fileExists and getChanges
\* steps completed, when the merge ends the insertEntries calls it issued are
\* the calls for the packages with entries in ascending name order (up to the
\* first call that failed), and the file holds what these calls and one save
\* make of the aggregate changelog; it is untouched when the merge failed.
C22_MergeDeterministic ==
  MergeEnded =>
    LET e == ApplyCalls(getTokens(NullTokens, merge.mainFile), ExpectedCalls, 0)
    IN /\ merge.issued = SubSeq(ExpectedCalls, 1, e.made)
       /\ Ascending(merge.issued)
       /\ merge.pc = "done" => (e.result = "ok" /\ file = render(e.tokens))
       /\ merge.pc = "failed" =>
            /\ file = merge.mainFile
            /\ e.result # "ok" \/ call.result = "WriteError"

\* The merge ended well after the package that sorts last completed first.
C22_Witness ==
  /\ merge.pc = "done"
  /\ Len(merge.changelogChanges) >= 2
  /\ NameRank(merge.changelogChanges[1]) > NameRank(merge.changelogChanges[2])
  /\ merge.issued[1].packageName # merge.issued[Len(merge.issued)].packageName
  /\ file # merge.mainFile

\* The group items of the top-level lists of a tree.
GroupItems(tree) ==
  UNION {{tree[i].items[a] : a \in {b \in 1..Len(tree[i].items) : IsGroupItem(tree[i].items[b])}}
         : i \in TopLists(tree)}

\* The group item holds one sub-list, and the sub-list holds an item.
HoldsEntries(item) ==
  /\ Cardinality(SubLists(item)) = 1
  /\ Len(SubListOf(item).items) > 0

Skipped(name) ==
  merge.pkg[name].file = NoFile \/ PackageChanges[name].changes.totalCount = 0

\* C23: the merge issues no insertEntries call for a package without a
\* changelog file or without unpublished entries; a call for a change type
\* without entries leaves the tree as it is; and every group item of the
\* aggregate tree, and of the file the merge writes, that the aggregate
\* changelog did not have before holds a sub-list with at least one item.
C23_NothingForEmpty ==
  merge.pc \in {"inserting", "done", "failed"} =>
    /\ \A k \in 1..Len(merge.issued) : ~Skipped(merge.issued[k].packageName)
    /\ (call.op = "insertEntries" /\ Len(call.entries) = 0) => tokens = call.preTokens
    /\ tokens # NullTokens =>
         \A item \in GroupItems(tokens) \ GroupItems(getTokens(NullTokens, merge.mainFile)) :
           HoldsEntries(item)
    /\ merge.pc = "done" =>
         \A item \in GroupItems(FileTree) \ GroupItems(getTokens(NullTokens, merge.mainFile)) :
           HoldsEntries(item)

\* A merge that ended well with a package it skipped and a change type
\* without entries, and that created a group.
C23_Witness ==
  /\ merge.pc = "done"
  /\ \E n \in PackageNames : merge.pkg[n].file # NoFile /\ Skipped(n)
  /\ \E k \in 1..Len(merge.issued) : Len(merge.issued[k].entries) = 0
  /\ GroupItems(FileTree) \ GroupItems(getTokens(NullTokens, merge.mainFile)) # {}

\* post is pre followed by one item per entry, in the order of the entries:
\* a list item whose only child is a text token with the entry's label.
AppendedTo(pre, post, entries) ==
  /\ Len(post) = Len(pre) + Len(entries)
  /\ SubSeq(post, 1, Len(pre)) = pre
  /\ \A k \in 1..Len(entries) :
       LET item == post[Len(pre) + k]
           label == getChangeEntryLabel(entries[k])
       IN /\ item.type = LIST_ITEM
          /\ item.text = label
          /\ item.tokens = <<createTextToken(label)>>

HasGroup(items, group) ==
  \E a \in 1..Len(items) :
    IsGroupItem(items[a]) /\ items[a].tokens[1].text = getGroupLabel(group)

GroupIndex(items, group) ==
  Least({a \in 1..Len(items) :
           IsGroupItem(items[a]) /\ items[a].tokens[1].text = getGroupLabel(group)})

\* The entries went into the group's sub-list: the other items of the list
\* and the other children of the group item are as before, a group item that
\* had to be created is the last item, and the sub-list took the entries.
AppendedToGroup(preItems, postItems, group, entries) ==
  LET had == HasGroup(preItems, group)
      g == GroupIndex(postItems, group)
  IN /\ g > 0
     /\ RemoveAt(postItems, g) = (IF had THEN RemoveAt(preItems, g) ELSE preItems)
     /\ ~had => g = Len(postItems)
     /\ LET postItem == postItems[g]
            preChildren == IF had THEN preItems[g].tokens
                           ELSE <<createTextToken(getGroupLabel(group))>>
            hadList == \E n \in 1..Len(preChildren) : preChildren[n].type = LIST
            n == Least(SubLists(postItem))
        IN /\ n > 0
           /\ RemoveAt(postItem.tokens, n) =
                (IF hadList THEN RemoveAt(preChildren, n) ELSE preChildren)
           /\ AppendedTo(IF hadList THEN preChildren[n].items ELSE <<>>,
                         postItem.tokens[n].items, entries)

\* C24: a successful insertEntries with entries e1..en appends n items to the
\* target list (the section's list, or the sub-list of the group), in the
\* order of the entries and after the items the list had; the items the list
\* had and every token outside the target list are unchanged, apart from a
\* list, group item or sub-list that had to be created.
C24_AppendsEntries ==
  Inserted =>
    LET j == call.target
        created == Len(tokens) = Len(call.pre) + 1
        preItems == IF created THEN <<>> ELSE call.pre[j].items
    IN /\ Len(tokens) = Len(call.pre) \/ created
       /\ ~created => call.pre[j].type = LIST
       /\ tokens[j].type = LIST
       /\ RemoveAt(tokens, j) = (IF created THEN call.pre ELSE RemoveAt(call.pre, j))
       /\ IF Falsy(call.group)
          THEN AppendedTo(preItems, tokens[j].items, call.entries)
          ELSE AppendedToGroup(preItems, tokens[j].items, call.group, call.entries)

\* MaxEntries entries went into a group the list had, after the item of its
\* sub-list.
C24_Witness ==
  /\ Inserted
  /\ ~Falsy(call.group)
  /\ Len(call.entries) = MaxEntries
  /\ Len(tokens) = Len(call.pre)
  /\ HasGroup(call.pre[call.target].items, call.group)
  /\ Len(SubListOf(GroupItemOf(tokens[call.target], call.group)).items) = MaxEntries + 1

\* The version key getChanges files a heading text under.
VersionKey(txt) == IF txt \in {Str("master"), Str("unpublished")} THEN Str("unpublished") ELSE txt

ToVersion == IF call.toVersion = NoArg THEN Str("master") ELSE call.toVersion

\* getChanges was called with both versions, both are headings of the
\* document and the toVersion heading stands above the fromVersion heading.
Ranged ==
  /\ call.op = "getChanges"
  /\ call.fromVersion # NoArg
  /\ VersionHeading(call.pre, ToVersion) > 0
  /\ VersionHeading(call.pre, call.fromVersion) > VersionHeading(call.pre, ToVersion)

\* The version headings from index a up to, and without, index b.
VersionsBetween(toks, a, b) == {h \in a..(b - 1) : IsHeading(toks[h], 2)}

\* C25: getChanges(fromVersion, toVersion) with both versions present and
\* toVersion above fromVersion returns the changes of the version sections
\* from the toVersion heading up to the fromVersion heading and of no other:
\* nothing of a section before the toVersion heading, nothing of the
\* fromVersion section or of a section after it.
C25_ChangesBetween ==
  Ranged =>
    LET pre == call.pre
        a == VersionHeading(pre, ToVersion)
        b == VersionHeading(pre, call.fromVersion)
        between == VersionsBetween(pre, a, b)
    IN /\ DOMAIN call.changes.versions = {VersionKey(pre[h].text) : h \in between}
       /\ \A h \in between :
            call.changes.versions[VersionKey(pre[h].text)]
              = EntriesIn(pre, h, NextVersion(pre, h))
       /\ call.changes.totalCount = ItemCount(pre, ListsIn(pre, a, b))

\* Every list of the array has depth d and so has each of its items, which
\* are list items; the lists among an item's children have depth d + 1, and
\* so on down.
RECURSIVE DepthsByLevel(_, _)
DepthsByLevel(toks, d) ==
  \A i \in 1..Len(toks) :
    toks[i].type = LIST =>
      /\ toks[i].depth = d
      /\ \A k \in 1..Len(toks[i].items) :
           /\ toks[i].items[k].type = LIST_ITEM
           /\ toks[i].items[k].depth = d
           /\ DepthsByLevel(toks[i].items[k].tokens, d + 1)

\* No token of the array, no item of its lists and no token below an item has
\* a raw field.
RECURSIVE NoRaw(_)
NoRaw(toks) ==
  \A i \in 1..Len(toks) :
    /\ "raw" \notin DOMAIN toks[i]
    /\ toks[i].type = LIST =>
         \A k \in 1..Len(toks[i].items) :
           /\ "raw" \notin DOMAIN toks[i].items[k]
           /\ NoRaw(toks[i].items[k].tokens)

\* The deepest nesting level of a list in the array, -1 if it has no list.
RECURSIVE Nesting(_)
Nesting(toks) ==
  LET levels == {-1} \cup
        UNION {{1 + Nesting(toks[i].items[k].tokens) : k \in 1..Len(toks[i].items)}
               : i \in {n \in 1..Len(toks) : toks[n].type = LIST}}
  IN CHOOSE m \in levels : \A l \in levels : l <= m

\* C26: in the array lexify returns, a list at nesting level d (0 at top
\* level) has depth d, its items have depth d, a list among the children of
\* such an item has depth d + 1, and no token or list item has kept its raw
\* source text.
C26_DepthsByNesting ==
  call.op = "lexify" =>
    /\ DepthsByLevel(tokens, 0)
    /\ NoRaw(tokens)
    /\ Len(tokens) = Len(call.pre)

C26_Witness ==
  /\ call.op = "lexify"
  /\ Nesting(tokens) = MaxNesting
  /\ Len(tokens) = 2
  /\ ~NoRaw(call.pre)

\* The sum of the lengths of the entry sequences of a result.
RECURSIVE SumOfLengths(_, _)
SumOfLengths(versions, pairs) ==
  IF pairs = {} THEN 0
  ELSE LET p == CHOOSE q \in pairs : TRUE
       IN Len(versions[p[1]][p[2]]) + SumOfLengths(versions, pairs \ {p})

KeyPairs(versions) ==
  UNION {{<<v, t>> : t \in DOMAIN versions[v]} : v \in DOMAIN versions}

IsSequence(x) == DOMAIN x = 1..Len(x)

\* sub is made of elements of seq in the order they have in seq.
RECURSIVE IsSubsequence(_, _)
IsSubsequence(sub, seq) ==
  IF sub = <<>> THEN TRUE
  ELSE IF seq = <<>> THEN FALSE
  ELSE IF sub[1] = seq[1] THEN IsSubsequence(Tail(sub), Tail(seq))
  ELSE IsSubsequence(sub, Tail(seq))

\* C27: in what getChanges returns, for any document and arguments,
\* totalCount is the sum of the lengths of the entry sequences in versions,
\* every change-type key under a version maps to a sequence, and the entries
\* of each sequence stand in the order they have in the document.
C27_ResultShape ==
  (call.op = "getChanges" /\ call.result = "ok") =>
    LET versions == call.changes.versions
    IN /\ call.changes.totalCount = SumOfLengths(versions, KeyPairs(versions))
       /\ \A p \in KeyPairs(versions) :
            /\ IsSequence(versions[p[1]][p[2]])
            /\ IsSubsequence(versions[p[1]][p[2]], TextsOf(call.pre, TopLists(call.pre)))

WriteFailed == call.op \in {"save", "cutOff"} /\ call.result = "WriteError"

\* C28: when the write of save or cutOff fails, the call fails with the
\* write's error, the instance stays Loaded, the file is as it was and the
\* cached tree is the tree the call started from; after a failed cutOff the
\* first version heading of the cached tree has the text it had.
C28_FailedWriteKeepsTree ==
  WriteFailed =>
    /\ ~Uninitialized(tokens)
    /\ file = call.preFile
    /\ tokens = call.pre

\* C29: fileExists changes neither the cache nor the file; getTokens,
\* getVersions, getLastPublishedVersion and getChanges never change the file,
\* leave a loaded tree exactly as it was and work on it without reading the
\* file again, and on an Uninitialized instance do nothing but load the tree
\* of the file.
C29_QueriesReadOnly ==
  /\ call.op = "fileExists" =>
       /\ tokens = call.preTokens
       /\ file = call.preFile
       /\ call.exists = (file # NoFile)
  /\ call.op \in Reads =>
       /\ file = call.preFile
       /\ ~Uninitialized(tokens)
       /\ tokens = call.pre
       /\ IF Uninitialized(call.preTokens)
          THEN tokens = FileTree
          ELSE tokens = call.preTokens

\* A read on a loaded tree that an insertion has made different from the
\* tree of the file.
C29_Witness ==
  /\ call.op \in Reads
  /\ call.prevOp = "insertEntries"
  /\ ~Uninitialized(call.preTokens)
  /\ tokens # FileTree
  /\ tokens = call.preTokens

====
